---- MODULE Spec2Model ----
(***************************************************************************)
(* Validation-correction pipeline of the coding-question validator:        *)
(* SchemaValidator, AIProcessorService.correctDocument, UpdaterService /   *)
(* MongoDBService.updateDocument with RetryHelper, the queue worker        *)
(* callback of consumer.ts and FailureReportManager.                       *)
(*                                                                         *)
(* Every action is one run-to-completion segment of the asynchronous code: *)
(* it starts where an awaited call resolves and runs up to the next await. *)
(***************************************************************************)
EXTENDS Naturals, Integers, Sequences, FiniteSets, TLC

VARIABLES
    retryMaxAttempts,   \* RETRY_MAX_ATTEMPTS, read by config.app and config.queue
    store,              \* the collection: ObjectId -> stored document or NoDoc
    upd,                \* one UpdaterService.updateDocument call frame per caller
    batch,              \* UpdaterService.updateBatch loop state per API caller
    queue,              \* the queue's job table: state, attemptsMade, data
    wk,                 \* worker callback frame per job
    reportFile,         \* the failure report file: its entries in file order
    appended,           \* per job: report writes that succeeded (written) and
                        \* report reads or writes that failed (faulted)
    archive,            \* corrected documents saved by BackupManager
    cd,                 \* one AIProcessorService.correctDocument call
    vl,                 \* one SchemaValidator.validate call
    scan,               \* one ScannerService.scanAndQueue run
    consumer,           \* the consumer process: where main is, isShuttingDown
    reportExists,       \* whether the failure report file exists on disk
    rh,                 \* one RetryHelper.execute call
    reportStats         \* what the last FailureReportManager.getStats call returned

vars == <<retryMaxAttempts, store, upd, batch, queue, wk, reportFile, appended,
          archive, cd, vl, scan, consumer, reportExists, rh, reportStats>>

----------------------------------------------------------------------------
(* Bounds of the model *)

MaxRetryAttempts == 3
BatchLen == 2
MaxStrLen == 3             \* longest test-case string validate is called on
MaxDocs == 5               \* most records a scanned collection holds
ScanBatchSize == 2         \* batchSize of the ScannerService

Items == {"w1", "w2"}        \* jobs the queue can hold
BatchCallers == {"b1"}       \* direct callers of the UpdaterService API
Callers == Items \cup BatchCallers

----------------------------------------------------------------------------
(* Documents.  A document keeps the fields the pipeline itself reads or    *)
(* writes (_id, question_id) and two fields the validator decides on       *)
(* (difficulty: structural pass, inputFormat fence: semantic pass); the    *)
(* remaining schema fields are well formed in every document here.         *)

Missing == "MISSING"
Garbage == [garbage |-> TRUE]       \* a reply body that is not JSON
NoDoc == [nodoc |-> TRUE]           \* null: no document

Ids == {"a", "b"}

\* Strings the semantic pass looks into are sequences of characters; "1"
\* stands for every character the heuristics do not look for.
Chars == {"=", "[", "]", ",", "1"}

Strs(n) == UNION {[1..k -> Chars] : k \in 0..n}

\* String.prototype.includes for a one-character needle
Includes(s, ch) == \E k \in 1..Len(s) : s[k] = ch

\* a TestCaseSchema value: id, input, expectedOutput (description and the
\* two original_ fields are well formed)
TestCase(id, input, expectedOutput) ==
    [id |-> id, input |-> input, expectedOutput |-> expectedOutput]

\* extra: the keys of the document outside the schema, in key order
Doc(id, qid, diff, fence) ==
    [_id |-> id, question_id |-> qid, difficulty |-> diff, inputFormat |-> fence,
     testCases |-> <<TestCase(1, <<"1">>, <<"1">>)>>, extra |-> <<>>]

\* a candidate that is not an object (a number, a string)
NonObject == [nonobject |-> TRUE]

\* the slug of the documents that do not spell their slug out
WellFormedSlug == "two-sum"

\* document with its slug spelled out (Missing: the record has no slug)
WithSlug(document, slug) ==
    [k \in DOMAIN document \cup {"slug"} |->
        IF k = "slug" THEN slug ELSE document[k]]

\* (document as any).slug
Slug(document) ==
    IF "slug" \in DOMAIN document THEN document.slug ELSE WellFormedSlug

DifficultiesAnyCase == {"Easy", "Medium", "Hard", "easy", "medium", "hard"}

Difficulties == {"Easy", "Medium", "Hard"}

\* JavaScript truthiness of an optional string-like field
Truthy(v) == v \notin {Missing, ""}

RECURSIVE Concat(_)
\* [].concat(...ss): the sequences of ss one after the other
Concat(ss) == IF ss = <<>> THEN <<>> ELSE Head(ss) \o Concat(Tail(ss))

\* zodError.path.join('.') of an issue inside test case k (1-based here)
TestCasePath(k, key) ==
    CASE k = 1 /\ key = "input" -> "testCases.0.input"
      [] k = 1 /\ key = "expectedOutput" -> "testCases.0.expectedOutput"
      [] k = 2 /\ key = "input" -> "testCases.1.input"
      [] k = 2 /\ key = "expectedOutput" -> "testCases.1.expectedOutput"
      [] OTHER -> "testCases.n"

\* `${field}.${key}` with the empty path of a top-level unrecognized_keys issue
ExtraFieldPath(key) ==
    CASE key = "foo" -> ".foo"
      [] key = "bar" -> ".bar"
      [] OTHER -> ".key"

\* the issues of one TestCaseSchema value: z.string().min(1) on input and
\* expectedOutput
TestCaseIssues(k, testCase) ==
    (IF Len(testCase.input) = 0
        THEN <<[field |-> TestCasePath(k, "input"), code |-> "INVALID_VALUE"]>>
        ELSE <<>>)
    \o
    (IF Len(testCase.expectedOutput) = 0
        THEN <<[field |-> TestCasePath(k, "expectedOutput"), code |-> "INVALID_VALUE"]>>
        ELSE <<>>)

UnrecognizedKeysStripped(document) == <<>>

\* the unrecognized_keys issue of the strict object, converted: one
\* extraField error per key of the issue
UnrecognizedKeys(document) ==
    [k \in 1..Len(document.extra) |->
        [field |-> ExtraFieldPath(document.extra[k]), code |-> "EXTRA_FIELD"]]

\* CodingQuestionSchema.parse as used by validateWithZod: the issues in
\* schema key order, the unrecognized keys of the strict object last,
\* converted to [field, code]
ValidateWithZod(document) ==
    IF document = NonObject THEN <<[field |-> "", code |-> "INVALID_TYPE"]>>
    ELSE
    (IF document.question_id = Missing
        THEN <<[field |-> "question_id", code |-> "INVALID_TYPE"]>>
        ELSE IF document.question_id = ""
        THEN <<[field |-> "question_id", code |-> "INVALID_VALUE"]>>
        ELSE <<>>)
    \o
    (IF document.difficulty = Missing
        THEN <<[field |-> "difficulty", code |-> "INVALID_TYPE"]>>
        ELSE IF document.difficulty \notin Difficulties
        THEN <<[field |-> "difficulty", code |-> "INVALID_VALUE"]>>
        ELSE <<>>)
    \o
    (IF Slug(document) = Missing
        THEN <<[field |-> "slug", code |-> "INVALID_TYPE"]>>
        ELSE <<>>)
    \o
    (IF Len(document.testCases) = 0
        THEN <<[field |-> "testCases", code |-> "EMPTY_ARRAY"]>>
        ELSE Concat([k \in 1..Len(document.testCases) |->
                        TestCaseIssues(k, document.testCases[k])]))
    \o
    (IF document.inputFormat = ""
        THEN <<[field |-> "inputFormat", code |-> "INVALID_VALUE"]>>
        ELSE <<>>)
    \o
    UnrecognizedKeys(document)

\* CodingQuestionValidator.validateTestCaseFormat: the messages for one test
\* case, each naming the test case and the part it is about
ValidateTestCaseFormat(testCase) ==
    (IF Includes(testCase.input, "=")
          \/ (Includes(testCase.input, "[") /\ Includes(testCase.input, "]"))
        THEN <<[about |-> "Test case", id |-> testCase.id, part |-> "input"]>>
        ELSE <<>>)
    \o
    (IF Includes(testCase.expectedOutput, "=")
          \/ (Includes(testCase.expectedOutput, "[")
                /\ Includes(testCase.expectedOutput, "]")
                /\ Includes(testCase.expectedOutput, ","))
        THEN <<[about |-> "Test case", id |-> testCase.id, part |-> "expectedOutput"]>>
        ELSE <<>>)

\* CodingQuestionValidator.validateInputFormat: the fence marker is in the
\* text exactly when the field is "fence"
ValidateInputFormat(inputFormat) ==
    IF inputFormat # "fence" THEN <<[about |-> "inputFormat"]>> ELSE <<>>

\* CodingQuestionValidator.performCustomValidations, converted by
\* SchemaValidator.performCustomValidations
PerformCustomValidations(document) ==
    LET customErrors ==
            Concat([k \in 1..Len(document.testCases) |->
                       ValidateTestCaseFormat(document.testCases[k])])
            \o ValidateInputFormat(document.inputFormat)
    IN  [k \in 1..Len(customErrors) |->
            IF customErrors[k].about = "Test case"
               THEN [field |-> "testCases", code |-> "INVALID_FORMAT",
                     message |-> customErrors[k]]
               ELSE [field |-> "inputFormat", code |-> "INVALID_FORMAT"]]

\* the result of the outer catch of validate
CriticalError ==
    [isValid |-> FALSE, customRan |-> FALSE,
     errors |-> <<[field |-> "document", code |-> "INVALID_VALUE"]>>]

ValidateCallBothPasses(document, zodThrows, customThrows) ==
    IF document = NoDoc \/ zodThrows THEN CriticalError
    ELSE LET zodErrors == ValidateWithZod(document)
             customErrors == IF customThrows \/ document = NonObject THEN <<>>
                             ELSE PerformCustomValidations(document)
             errors == zodErrors \o customErrors
         IN  [isValid |-> Len(errors) = 0, customRan |-> TRUE, errors |-> errors]

\* SchemaValidator.validate.  document._id of null throws inside the try; an
\* exception of the schema parse that is not a ZodError is rethrown into the
\* outer catch (zodThrows); an exception of the custom validations is caught
\* inside performCustomValidations, which then returns no errors
\* (customThrows).  customRan: the custom validations were called.
ValidateCall(document, zodThrows, customThrows) ==
    IF document = NoDoc \/ zodThrows THEN CriticalError
    ELSE LET zodErrors == ValidateWithZod(document)
             customRan == Len(zodErrors) = 0
             customErrors == IF customRan /\ ~customThrows
                                THEN PerformCustomValidations(document)
                                ELSE <<>>
             errors == zodErrors \o customErrors
         IN  [isValid |-> Len(errors) = 0, customRan |-> customRan, errors |-> errors]

\* SchemaValidator.validate when nothing throws
Validate(document) == ValidateCall(document, FALSE, FALSE)

----------------------------------------------------------------------------
(* Repair protocol *)

\* A reply text of the repair service: an optional fenced-code wrapper
\* around a body that is JSON of a document, or not JSON at all.
\* "fencejs" opens with a language tag other than json.
ReplyFences == {"none", "fence", "fencejson", "fencejs"}

\* parseAIResponse: strip the wrapper (the opening-fence pattern takes an
\* optional "json" tag only, any other tag stays in the text), JSON.parse
\* the rest
ParseAIResponse(reply) ==
    IF reply.body = Garbage \/ reply.fence = "fencejs"
        THEN [ok |-> FALSE, doc |-> NoDoc]
        ELSE [ok |-> TRUE, doc |-> reply.body]

\* AIProcessorService.correctDocument after the reply was parsed: the two
\* guarded assignments that restore _id and question_id
PreserveIds(document, parsed) ==
    LET c1 == IF Truthy(document._id)
                 THEN [parsed EXCEPT !._id = document._id] ELSE parsed
    IN  IF Truthy(document.question_id)
           THEN [c1 EXCEPT !.question_id = document.question_id] ELSE c1

\* AIProcessorService.correctDocument seen from its caller: the service call
\* fails, the reply does not parse, or a candidate is returned
Fault == [fault |-> TRUE, reply |-> [fence |-> "none", body |-> Garbage]]
Reply(fence, body) == [fault |-> FALSE, reply |-> [fence |-> fence, body |-> body]]

CorrectDocument(document, outcome) ==
    IF outcome.fault THEN [ok |-> FALSE, error |-> "ai-service", doc |-> NoDoc]
    ELSE LET p == ParseAIResponse(outcome.reply)
         IN  IF p.ok
                THEN [ok |-> TRUE, error |-> "", doc |-> PreserveIds(document, p.doc)]
                ELSE [ok |-> FALSE, error |-> "ai-parse", doc |-> NoDoc]

----------------------------------------------------------------------------
(* Store *)

FindByIdAlwaysFound(st, documentId) == Doc(documentId, "q1", "Easy", "fence")

\* collection.findOne({_id}) of MongoDBService.findById
FindById(st, documentId) == st[documentId]

DocumentWithId(correctedDocument) == correctedDocument

\* const { _id, ...documentWithoutId } = correctedDocument: the replace
\* payload of MongoDBService.updateDocument
DocumentWithoutId(correctedDocument) ==
    [k \in DOMAIN correctedDocument \ {"_id"} |-> correctedDocument[k]]

\* the record the store holds after replacing the record documentId by a
\* payload: the fields of the payload under the identity of the record
Replacement(documentId, payload) ==
    [k \in DOMAIN payload \cup {"_id"} |->
        IF k = "_id" THEN documentId ELSE payload[k]]

\* the store refuses a payload that would change the immutable _id
ChangesId(documentId, payload) ==
    "_id" \in DOMAIN payload /\ payload._id # documentId

FindOneAndReplaceUnchecked(st, documentId, correctedDocument, upsert) ==
    [store |-> IF st[documentId] # NoDoc
                  THEN [st EXCEPT ![documentId] =
                           Replacement(documentId, correctedDocument)]
                  ELSE st,
     result |-> TRUE]

FindOneAndReplaceEveryRecord(st, documentId, correctedDocument, upsert) ==
    IF st[documentId] # NoDoc \/ upsert
        THEN [store |-> [i \in DOMAIN st |->
                            IF st[i] # NoDoc \/ i = documentId
                               THEN Replacement(i, correctedDocument)
                               ELSE st[i]],
              result |-> TRUE]
        ELSE [store |-> st, result |-> FALSE]

\* collection.findOneAndReplace({_id}, documentWithoutId, {upsert,
\* returnDocument: 'after'}): the store keeps the identity of the matched
\* record; no match and no upsert writes nothing and returns null
FindOneAndReplace(st, documentId, correctedDocument, upsert) ==
    IF st[documentId] # NoDoc \/ upsert
        THEN [store |-> [st EXCEPT ![documentId] =
                            Replacement(documentId, correctedDocument)],
              result |-> TRUE]
        ELSE [store |-> st, result |-> FALSE]

UpsertAlways == TRUE

\* the upsert option MongoDBService.updateDocument passes
UpsertOption == FALSE

\* the records the collection holds
StoreIds(st) == {i \in DOMAIN st : st[i] # NoDoc}

----------------------------------------------------------------------------
(* Safe Updater: UpdaterService.updateDocument over RetryHelper.execute *)

Err(msg, n) == [msg |-> msg, n |-> n]
NoErr == Err("", 0)

IdleCall ==
    [pc |-> "idle", id |-> "", cand |-> NoDoc, attempt |-> 0, lookups |-> 0,
     replaces |-> 0, outcome |-> "none", error |-> NoErr]

UpdBeginNoValidation(documentId, correctedDocument) ==
    [IdleCall EXCEPT !.id = documentId, !.cand = correctedDocument, !.pc = "find"]

\* updateDocument up to its first await: step 1, validate the candidate
UpdBegin(documentId, correctedDocument) ==
    LET v == Validate(correctedDocument)
        f == [IdleCall EXCEPT !.id = documentId, !.cand = correctedDocument]
    IN  IF ~v.isValid
           THEN [f EXCEPT !.pc = "done", !.outcome = "thrown",
                          !.error = Err("still-invalid", Len(v.errors))]
           ELSE [f EXCEPT !.pc = "find"]

RetryBoundOneMore(maxAttempts) == maxAttempts + 1

\* the attempt bound RetryHelper.execute loops to
RetryBound(maxAttempts) == maxAttempts

\* step 2: findById resolves; absent is fatal, present starts the retry loop
UpdFind(c, fault) ==
    /\ upd[c].pc = "find"
    /\ LET f == [upd[c] EXCEPT !.lookups = @ + 1]
       IN  upd' = [upd EXCEPT ![c] =
              IF fault
                 THEN [f EXCEPT !.pc = "done", !.outcome = "thrown",
                                !.error = Err("read-error", 0)]
              ELSE IF FindById(store, f.id) = NoDoc
                 THEN [f EXCEPT !.pc = "done", !.outcome = "thrown",
                                !.error = Err("not-found", 0)]
              ELSE [f EXCEPT !.pc = "replace", !.attempt = 1]]
    /\ UNCHANGED <<retryMaxAttempts, store, batch, queue, wk, reportFile, appended, archive, cd, vl, scan, consumer, reportExists, rh, reportStats>>

UpdReplaceThrowsAfterWrite(c) ==
    /\ upd[c].pc = "replace"
    /\ LET f == [upd[c] EXCEPT !.replaces = @ + 1]
           lastError == Err("write-error", f.attempt)
       IN  /\ store' = FindOneAndReplace(store, f.id, DocumentWithoutId(f.cand),
                                         UpsertOption).store
           /\ upd' = [upd EXCEPT ![c] =
                  IF f.attempt >= RetryBound(retryMaxAttempts)
                     THEN [f EXCEPT !.pc = "done", !.outcome = "thrown",
                                    !.error = lastError]
                     ELSE [f EXCEPT !.attempt = @ + 1]]
    /\ UNCHANGED <<retryMaxAttempts, batch, queue, wk, reportFile, appended, archive, cd, vl, scan, consumer, reportExists, rh, reportStats>>

\* step 3, one pass of the RetryHelper loop: the replace throws (retry after
\* the backoff sleep, or rethrow the last error on the final attempt)
UpdReplaceThrows(c) ==
    /\ upd[c].pc = "replace"
    /\ LET f == [upd[c] EXCEPT !.replaces = @ + 1]
           lastError == Err("write-error", f.attempt)
       IN  upd' = [upd EXCEPT ![c] =
              IF f.attempt >= RetryBound(retryMaxAttempts)
                 THEN [f EXCEPT !.pc = "done", !.outcome = "thrown",
                                !.error = lastError]
                 ELSE [f EXCEPT !.attempt = @ + 1]]
    /\ UNCHANGED <<retryMaxAttempts, store, batch, queue, wk, reportFile, appended, archive, cd, vl, scan, consumer, reportExists, rh, reportStats>>

\* step 3, the replace returns: the post-write document, or null on no match
UpdReplaceReturns(c) ==
    /\ upd[c].pc = "replace"
    /\ ~ChangesId(upd[c].id, DocumentWithoutId(upd[c].cand))
    /\ LET f == [upd[c] EXCEPT !.replaces = @ + 1]
           r == FindOneAndReplace(store, f.id, DocumentWithoutId(f.cand), UpsertOption)
       IN  /\ store' = r.store
           /\ upd' = [upd EXCEPT ![c] =
                  [f EXCEPT !.pc = "done",
                            !.outcome = IF r.result THEN "true" ELSE "false"]]
    /\ UNCHANGED <<retryMaxAttempts, batch, queue, wk, reportFile, appended, archive, cd, vl, scan, consumer, reportExists, rh, reportStats>>

\* another client of the collection deletes a record
ExternalDelete(id) ==
    /\ store[id] # NoDoc
    /\ store' = [store EXCEPT ![id] = NoDoc]
    /\ UNCHANGED <<retryMaxAttempts, upd, batch, queue, wk, reportFile, appended, archive, cd, vl, scan, consumer, reportExists, rh, reportStats>>

\* another client of the collection commits a change to a record
ExternalUpdate(id) ==
    /\ store[id] # NoDoc
    /\ store[id].difficulty # "Medium"
    /\ store' = [store EXCEPT ![id] = [@ EXCEPT !.difficulty = "Medium"]]
    /\ UNCHANGED <<retryMaxAttempts, upd, batch, queue, wk, reportFile, appended, archive, cd, vl, scan, consumer, reportExists, rh, reportStats>>

----------------------------------------------------------------------------
(* RetryHelper.execute, called with any options and a function that may
   reject on any attempt *)

\* the default of RETRY_DELAY_MS, in milliseconds
RetryDelayMs == 5000

\* delayMs values execute is called with
DelayMsValues == {1, RetryDelayMs}

\* the errors fn rejects with
RetryErrors == {Err("fn-error", 1), Err("fn-error", 2)}

RECURSIVE Pow2(_)
\* Math.pow(2, n) for a non-negative integer n
Pow2(n) == IF n = 0 THEN 1 ELSE 2 * Pow2(n - 1)

\* the delay execute sleeps after a failed attempt that is not the last
RetryDelay(delayMs, attempt, exponentialBackoff) ==
    IF exponentialBackoff THEN delayMs * Pow2(attempt - 1) ELSE delayMs

\* one execute call: its options, the loop variable, the errors fn rejected
\* with, the delays slept and the onRetry calls made, each in order
IdleRetry ==
    [pc |-> "idle", maxAttempts |-> 0, delayMs |-> 0,
     exponentialBackoff |-> FALSE, onRetry |-> FALSE, attempt |-> 0,
     errors |-> <<>>, delays |-> <<>>, observed |-> <<>>,
     outcome |-> "none", lastError |-> NoErr]

RetryRest == <<retryMaxAttempts, store, upd, batch, queue, wk, reportFile,
               appended, archive, cd, vl, scan, consumer, reportExists,
               reportStats>>

\* await fn() resolves: execute returns its value
RetryFnResolves ==
    /\ rh.pc = "call"
    /\ rh' = [rh EXCEPT !.pc = "done", !.outcome = "returned"]
    /\ UNCHANGED RetryRest

\* await fn() rejects: on the last attempt the error is rethrown; otherwise
\* the delay is computed, onRetry (when given) is called with the attempt
\* number and the error, and execute sleeps
RetryFnRejects(error) ==
    /\ rh.pc = "call"
    /\ LET f == [rh EXCEPT !.errors = Append(@, error), !.lastError = error]
           delay == RetryDelay(rh.delayMs, rh.attempt, rh.exponentialBackoff)
       IN  rh' = IF rh.attempt = rh.maxAttempts
                    THEN [f EXCEPT !.pc = "done", !.outcome = "thrown"]
                    ELSE [f EXCEPT !.pc = "sleep",
                                   !.delays = Append(@, delay),
                                   !.observed = IF rh.onRetry
                                                   THEN Append(@, <<rh.attempt, error>>)
                                                   ELSE @]
    /\ UNCHANGED RetryRest

\* the sleep timer fires: the loop goes to its next attempt
RetrySleepResolves ==
    /\ rh.pc = "sleep"
    /\ rh' = [rh EXCEPT !.pc = "call", !.attempt = @ + 1]
    /\ UNCHANGED RetryRest

----------------------------------------------------------------------------
(* UpdaterService.updateBatch, called directly with any ids and candidates *)

Candidates ==
    { Doc("a", "q1", "Easy", "fence"),
      Doc("b", "q2", "Hard", "fence"),
      Doc("a", "q1", "easy", "fence"),
      Doc(Missing, "", "EASY", "nofence"),
      Doc("a", "q1", "Medium", "nofence") }

\* successful, failed, errors: the results object; left: pairs still to go;
\* pairs: the ids of the pairs called so far, outcomes: what their
\* updateDocument calls came to ("true", "false", "thrown")
IdleBatch ==
    [pc |-> "idle", left |-> 0, successful |-> 0, failed |-> 0, errors |-> <<>>,
     n |-> 0, pairs |-> <<>>, outcomes |-> <<>>]

BatchStart(b, n) ==
    /\ batch[b].pc = "idle"
    /\ batch' = [batch EXCEPT ![b] = [IdleBatch EXCEPT !.pc = "loop", !.left = n, !.n = n]]
    /\ UNCHANGED <<retryMaxAttempts, store, upd, queue, wk, reportFile, appended, archive, cd, vl, scan, consumer, reportExists, rh, reportStats>>

\* loop head: the next pair's updateDocument call starts
BatchCall(b, documentId, correctedDocument) ==
    /\ batch[b].pc = "loop"
    /\ batch[b].left > 0
    /\ upd[b].pc = "idle"
    /\ upd' = [upd EXCEPT ![b] = UpdBegin(documentId, correctedDocument)]
    /\ batch' = [batch EXCEPT ![b].pairs = Append(@, documentId)]
    /\ UNCHANGED <<retryMaxAttempts, store, queue, wk, reportFile, appended, archive, cd, vl, scan, consumer, reportExists, rh, reportStats>>

BatchTallyStopsOnThrow(b) ==
    /\ batch[b].pc = "loop"
    /\ upd[b].pc = "done"
    /\ LET f == upd[b]
           t == batch[b]
           t1 == IF f.outcome = "true"
                    THEN [t EXCEPT !.successful = @ + 1, !.left = @ - 1]
                 ELSE IF f.outcome = "false"
                    THEN [t EXCEPT !.failed = @ + 1, !.left = @ - 1,
                            !.errors = Append(@, [documentId |-> f.id,
                                                  error |-> Err("returned-false", 0)])]
                 ELSE [t EXCEPT !.failed = @ + 1, !.left = 0,
                            !.errors = Append(@, [documentId |-> f.id,
                                                  error |-> f.error])]
       IN  batch' = [batch EXCEPT ![b] = [t1 EXCEPT !.outcomes = Append(@, f.outcome)]]
    /\ upd' = [upd EXCEPT ![b] = IdleCall]
    /\ UNCHANGED <<retryMaxAttempts, store, queue, wk, reportFile, appended, archive, cd, vl, scan, consumer, reportExists, rh, reportStats>>

\* the call settled: tally it and go on with the next pair
BatchTally(b) ==
    /\ batch[b].pc = "loop"
    /\ upd[b].pc = "done"
    /\ LET f == upd[b]
           t == batch[b]
           t1 == IF f.outcome = "true"
                    THEN [t EXCEPT !.successful = @ + 1]
                 ELSE IF f.outcome = "false"
                    THEN [t EXCEPT !.failed = @ + 1,
                            !.errors = Append(@, [documentId |-> f.id,
                                                  error |-> Err("returned-false", 0)])]
                 ELSE [t EXCEPT !.failed = @ + 1,
                            !.errors = Append(@, [documentId |-> f.id,
                                                  error |-> f.error])]
       IN  batch' = [batch EXCEPT ![b] =
              [t1 EXCEPT !.left = @ - 1, !.outcomes = Append(@, f.outcome)]]
    /\ upd' = [upd EXCEPT ![b] = IdleCall]
    /\ UNCHANGED <<retryMaxAttempts, store, queue, wk, reportFile, appended, archive, cd, vl, scan, consumer, reportExists, rh, reportStats>>

BatchReturn(b) ==
    /\ batch[b].pc = "loop"
    /\ batch[b].left = 0
    /\ upd[b].pc = "idle"
    /\ batch' = [batch EXCEPT ![b].pc = "returned"]
    /\ UNCHANGED <<retryMaxAttempts, store, upd, queue, wk, reportFile, appended, archive, cd, vl, scan, consumer, reportExists, rh, reportStats>>

----------------------------------------------------------------------------
(* Specification of the Safe Updater under direct calls *)

\* onlyInvalid: every failed attempt of the job so far failed because the
\* repaired candidate did not re-validate
\* a job of the queue; failedReason is what the queue records when the
\* callback rejects for the last time (the error the callback threw)
\* the line a cell sequence stands for is "|" followed by each cell and a
\* "|"; a cell here holds no "|" and is not empty (generateTableRow puts a
\* blank on either side of every value)
TableHeaderRow ==
    <<"Timestamp", "Slug", "MongoDB ID", "Retry Attempts", "Failure Reason",
      "Error Count">>
TableSeparatorRow ==
    <<"-----------", "------", "------------", "----------------",
      "----------------", "-------------">>

\* generateTableRow: the six cells of an entry's row
GenerateTableRow(entry) ==
    <<"timestamp", "slug", "mongoId", "retryAttempts", "reason", "errorCount">>

\* the lines of the report that start with "|": the two rows generateHeader
\* writes and, below them, one row per entry logFailure has inserted
TableLines(entries) ==
    <<TableHeaderRow, TableSeparatorRow>>
        \o [k \in 1..Len(entries) |-> GenerateTableRow(entries[k])]

\* the regular expression of getStats on one line: six cells between seven
\* bars
MatchesTableRow(cells) == Len(cells) = 6

\* getStats after a successful read: tableMatches.length - 1, or 0 without
\* a match
GetStats(entries) ==
    LET tableMatches == SelectSeq(TableLines(entries), MatchesTableRow)
    IN  IF Len(tableMatches) > 0 THEN Len(tableMatches) - 1 ELSE 0

\* called: getStats has been called; read: its readFile succeeded
NoReportStats == [called |-> FALSE, read |-> FALSE, totalFailures |-> 0, logged |-> 0]

\* a path in failedQuestionsDir: `${dir}/${slug}_${id}.json`, kept as its
\* two interpolated parts
FailedQuestionsPath(slugPart, idPart) ==
    [dir |-> "failedQuestionsDir", slug |-> slugPart, id |-> idPart]
NoPath == [dir |-> "", slug |-> "", id |-> ""]

\* snapshotPath: the file the scan wrote the record's snapshot to
IdleJob ==
    [state |-> "none", attemptsMade |-> 0, data |-> NoDoc, onlyInvalid |-> TRUE,
     failedReason |-> NoErr, snapshotPath |-> NoPath]
NoneAppended == [written |-> 0, faulted |-> 0]
IdleWorker == [pc |-> "idle", corrected |-> NoDoc, error |-> NoErr, content |-> <<>>]
IdleCorrect == [pc |-> "idle", document |-> NoDoc, outcome |-> NoDoc, result |-> NoDoc]
\* what main establishes before it creates the worker
StartupChecks == {"config", "store", "queue", "probe"}
\* the consumer process: pc is where main stands, isShuttingDown the flag of
\* shutdown; the grace timer is pending exactly while the flag is set;
\* passed: the start-up checks that have succeeded in this run; exitCode:
\* the code the process exited with ("" while it has not)
IdleConsumer ==
    [pc |-> "down", isShuttingDown |-> FALSE, timers |-> 0, initialized |-> "none",
     passed |-> {}, exitCode |-> ""]
RunningConsumer ==
    [pc |-> "running", isShuttingDown |-> FALSE, timers |-> 0, initialized |-> "found",
     passed |-> StartupChecks, exitCode |-> ""]
IdleValidate ==
    [pc |-> "idle", document |-> NoDoc, zodThrows |-> FALSE, customThrows |-> FALSE,
     result |-> NoDoc]
\* stats: the ScanStats of scanAndQueue
NoStats ==
    [totalScanned |-> 0, validDocuments |-> 0, invalidDocuments |-> 0,
     backedUp |-> 0, queued |-> 0, errors |-> 0]

\* records: what the cursor yields in all; cursor: what it has yet to yield;
\* items: rest of the batch in hand; doc: the invalid record in hand;
\* backups, jobs: snapshots written and messages enqueued;
\* snapshotFailures, enqueueFailures: saveBackup and addJob calls that threw;
\* batches: the batches the generator has yielded so far;
\* single: the last scanDocument call, its id and what it returned;
\* exitCode: the code the scan command exited with ("" while it has not);
\* passed: the start-up steps of the command that have succeeded;
\* signalled: the command was ended by SIGINT or SIGTERM
NoSingle == [id |-> "", result |-> "none"]
IdleScan ==
    [pc |-> "idle", records |-> <<>>, cursor |-> <<>>, items |-> <<>>,
     doc |-> NoDoc, backups |-> <<>>, jobs |-> <<>>, stats |-> NoStats,
     snapshotFailures |-> 0, enqueueFailures |-> 0, batches |-> <<>>,
     single |-> NoSingle, exitCode |-> "", passed |-> {}, signalled |-> FALSE]

InitUpdater ==
    /\ retryMaxAttempts \in 1..MaxRetryAttempts
    /\ store = [i \in Ids |-> IF i = "a" THEN Doc("a", "q1", "easy", "fence") ELSE NoDoc]
    /\ upd = [c \in Callers |-> IdleCall]
    /\ batch = [b \in BatchCallers |-> IdleBatch]
    /\ queue = [w \in Items |-> IdleJob]
    /\ wk = [w \in Items |-> IdleWorker]
    /\ reportFile = <<>>
    /\ appended = [w \in Items |-> NoneAppended]
    /\ archive = {}
    /\ cd = IdleCorrect
    /\ vl = IdleValidate
    /\ scan = IdleScan
    /\ consumer = IdleConsumer
    /\ reportExists = TRUE
    /\ rh = IdleRetry
    /\ reportStats = NoReportStats

UpdaterStep(c) ==
    \/ \E fault \in BOOLEAN : UpdFind(c, fault)
    \/ UpdReplaceThrows(c)
    \/ UpdReplaceReturns(c)

NextUpdater ==
    \/ \E b \in BatchCallers, n \in 0..BatchLen : BatchStart(b, n)
    \/ \E b \in BatchCallers, i \in Ids, d \in Candidates : BatchCall(b, i, d)
    \/ \E b \in BatchCallers : UpdaterStep(b)
    \/ \E b \in BatchCallers : BatchTally(b)
    \/ \E b \in BatchCallers : BatchReturn(b)
    \/ \E i \in Ids : ExternalDelete(i)

SpecUpdater == InitUpdater /\ [][NextUpdater]_vars

\* execute called with the loop at its first attempt
InitRetry ==
    /\ retryMaxAttempts = 1
    /\ store = [i \in Ids |-> NoDoc]
    /\ upd = [c \in Callers |-> IdleCall]
    /\ batch = [b \in BatchCallers |-> IdleBatch]
    /\ queue = [w \in Items |-> IdleJob]
    /\ wk = [w \in Items |-> IdleWorker]
    /\ reportFile = <<>>
    /\ appended = [w \in Items |-> NoneAppended]
    /\ archive = {}
    /\ cd = IdleCorrect
    /\ vl = IdleValidate
    /\ scan = IdleScan
    /\ consumer = IdleConsumer
    /\ reportExists = TRUE
    /\ reportStats = NoReportStats
    /\ \E n \in 1..MaxRetryAttempts, d \in DelayMsValues, e \in BOOLEAN, o \in BOOLEAN :
          rh = [IdleRetry EXCEPT !.pc = "call", !.attempt = 1, !.maxAttempts = n,
                                 !.delayMs = d, !.exponentialBackoff = e,
                                 !.onRetry = o]

NextRetry ==
    \/ RetryFnResolves
    \/ \E error \in RetryErrors : RetryFnRejects(error)
    \/ RetrySleepResolves

SpecRetry == InitRetry /\ [][NextRetry]_vars

----------------------------------------------------------------------------
(* Specification of one correctDocument call on any document and reply *)

InputDocs ==
    { Doc(i, q, d, f) : i \in {"a", Missing}, q \in {"q1", "", Missing},
                        d \in {"Easy", "easy"}, f \in {"fence", "nofence"} }

ReplyDocs ==
    { Doc(i, q, "Easy", "fence") : i \in {"a", "b", Missing},
                                   q \in {"q1", "q2", Missing} }

Outcomes ==
    {Fault} \cup { Reply(f, b) : f \in ReplyFences, b \in ReplyDocs \cup {Garbage} }

InitCorrect ==
    /\ retryMaxAttempts = 1
    /\ store = [i \in Ids |-> NoDoc]
    /\ upd = [c \in Callers |-> IdleCall]
    /\ batch = [b \in BatchCallers |-> IdleBatch]
    /\ queue = [w \in Items |-> IdleJob]
    /\ wk = [w \in Items |-> IdleWorker]
    /\ reportFile = <<>>
    /\ appended = [w \in Items |-> NoneAppended]
    /\ archive = {}
    /\ vl = IdleValidate
    /\ scan = IdleScan
    /\ consumer = IdleConsumer
    /\ reportExists = TRUE
    /\ rh = IdleRetry
    /\ reportStats = NoReportStats
    /\ \E d \in InputDocs, o \in Outcomes :
          cd = [IdleCorrect EXCEPT !.pc = "called", !.document = d, !.outcome = o]

\* the service call resolves and correctDocument returns or throws
CorrectResolve ==
    /\ cd.pc = "called"
    /\ LET r == CorrectDocument(cd.document, cd.outcome)
       IN  cd' = [cd EXCEPT !.pc = IF r.ok THEN "returned" ELSE "thrown",
                            !.result = r.doc]
    /\ UNCHANGED <<retryMaxAttempts, store, upd, batch, queue, wk, reportFile,
                   appended, archive, vl, scan, consumer, reportExists, rh, reportStats>>

NextCorrect == CorrectResolve

SpecCorrect == InitCorrect /\ [][NextCorrect]_vars

\* C5: the candidate correctDocument returns has the input's _id and the
\* input's question_id, whatever the reply carried in them.
C5_IdentifiersPreserved ==
    cd.pc = "returned" =>
        /\ cd.result._id = cd.document._id
        /\ cd.result.question_id = cd.document.question_id

----------------------------------------------------------------------------
(* Specification of one validate call on any candidate *)

\* an otherwise valid record
ValidDoc == Doc("a", "q1", "Easy", "fence")

DifficultyStrings ==
    {"Easy", "Medium", "Hard", "easy", "EASY", "eASY", "medium", "MEDIUM",
     "hard", "HARD", "", "Expert"}

ExtraKeys == {<<>>, <<"foo">>, <<"bar">>, <<"foo", "bar">>, <<"bar", "foo">>}

\* the test-case lists validate is called on
TestCaseLists ==
    {<<>>}
    \cup { <<TestCase(1, i, o)>> : i \in Strs(MaxStrLen), o \in Strs(1) }
    \cup { <<TestCase(1, i, o)>> : i \in Strs(1), o \in Strs(MaxStrLen) }
    \cup { <<TestCase(1, i, <<"1">>), TestCase(2, <<"1">>, o)>> :
              i \in Strs(2), o \in Strs(2) }

ValidateInputs ==
    {NoDoc, NonObject}
    \cup { [ValidDoc EXCEPT !.difficulty = d] : d \in DifficultyStrings }
    \cup { [ValidDoc EXCEPT !.extra = e, !.difficulty = d, !.question_id = q] :
              e \in ExtraKeys, d \in {"Easy", "easy"}, q \in {"q1", Missing} }
    \cup { [ValidDoc EXCEPT !.testCases = t, !.inputFormat = f] :
              t \in TestCaseLists, f \in {"fence", "nofence", ""} }

InitValidate ==
    /\ retryMaxAttempts = 1
    /\ store = [i \in Ids |-> NoDoc]
    /\ upd = [c \in Callers |-> IdleCall]
    /\ batch = [b \in BatchCallers |-> IdleBatch]
    /\ queue = [w \in Items |-> IdleJob]
    /\ wk = [w \in Items |-> IdleWorker]
    /\ reportFile = <<>>
    /\ appended = [w \in Items |-> NoneAppended]
    /\ archive = {}
    /\ cd = IdleCorrect
    /\ scan = IdleScan
    /\ consumer = IdleConsumer
    /\ reportExists = TRUE
    /\ rh = IdleRetry
    /\ reportStats = NoReportStats
    /\ \E d \in ValidateInputs, zt \in BOOLEAN, ct \in BOOLEAN :
          vl = [IdleValidate EXCEPT !.pc = "called", !.document = d,
                                    !.zodThrows = zt, !.customThrows = ct]

\* validate runs to its return (it is synchronous and has no throw path)
ValidateReturn ==
    /\ vl.pc = "called"
    /\ vl' = [vl EXCEPT !.pc = "returned",
                        !.result = ValidateCall(vl.document, vl.zodThrows, vl.customThrows)]
    /\ UNCHANGED <<retryMaxAttempts, store, upd, batch, queue, wk, reportFile,
                   appended, archive, cd, scan, consumer, reportExists, rh, reportStats>>

NextValidate == ValidateReturn

SpecValidate == InitValidate /\ [][NextValidate]_vars

----------------------------------------------------------------------------
(* Scan pipeline: ScannerService.scanAndQueue over one collection *)

ScanIdNames == <<"a", "b", "c", "d", "e", "f", "g">>

\* the collections scanned: up to MaxDocs records with distinct ids, each
\* valid or with a wrong-case difficulty
RecordSets ==
    UNION { { [k \in 1..n |-> Doc(ScanIdNames[k], "q1", ds[k], "fence")] :
                 ds \in [1..n -> {"Easy", "easy"}] } : n \in 0..MaxDocs }

QueuedNotCounted(stats) == stats

\* stats.queued++
Queued(stats) == [stats EXCEPT !.queued = @ + 1]

\* doc._id?.toString() || 'unknown' of handleInvalidDocument
DocumentId(doc) == IF Truthy(doc._id) THEN doc._id ELSE "unknown"

\* the file saveBackup writes the snapshot of document to
SaveBackupPath(document) ==
    FailedQuestionsPath(
        IF Truthy(Slug(document)) THEN Slug(document) ELSE "unknown-slug",
        IF Truthy(document._id) THEN document._id ELSE "no-id")

\* backupFilePath as the catch block of the worker callback builds it
BackupFilePath(failedDocument, documentId) ==
    FailedQuestionsPath(
        IF Truthy(Slug(failedDocument)) THEN Slug(failedDocument) ELSE "unknown",
        documentId)

QueueMessageRetryOne(doc, validationErrors) ==
    [documentId |-> DocumentId(doc), failedDocument |-> doc,
     validationErrors |-> validationErrors, retryCount |-> 1]

\* ScannerService.handleInvalidDocument, step 2: the queue message
QueueMessage(doc, validationErrors) ==
    [documentId |-> DocumentId(doc), failedDocument |-> doc,
     validationErrors |-> validationErrors, retryCount |-> 0]

RECURSIVE ProcessBatch(_, _)
\* processBatch from its loop head up to the first await: valid records are
\* counted on the spot, the first invalid one is handed to
\* handleInvalidDocument, which awaits saveBackup
ProcessBatch(items, stats) ==
    IF items = <<>> THEN [items |-> <<>>, stats |-> stats, doc |-> NoDoc]
    ELSE LET st == [stats EXCEPT !.totalScanned = @ + 1]
         IN  IF Validate(Head(items)).isValid
                THEN ProcessBatch(Tail(items), [st EXCEPT !.validDocuments = @ + 1])
                ELSE [items |-> Tail(items),
                      stats |-> [st EXCEPT !.invalidDocuments = @ + 1],
                      doc |-> Head(items)]

\* the scan goes on with the batch in hand: next invalid record, or the
\* batch is drained and the generator is asked for the next one
ScanResume(sc, items, stats) ==
    LET r == ProcessBatch(items, stats)
    IN  [sc EXCEPT !.items = r.items, !.stats = r.stats, !.doc = r.doc,
                   !.pc = IF r.doc = NoDoc THEN "fetch" ELSE "backup"]

ScanRest == <<retryMaxAttempts, store, upd, batch, queue, wk, reportFile,
              appended, archive, cd, vl, consumer, reportExists, rh, reportStats>>

\* the awaits of the scan command's main before scanAndQueue, in order, and
\* where main stands after each one has resolved
ScannerStartupNext(pc) ==
    CASE pc = "backupInit" -> "connect"
      [] pc = "connect" -> "isEmpty"
      [] pc = "isEmpty" -> "stats"
      [] pc = "stats" -> "called"

ScannerStartupPcs == {"backupInit", "connect", "isEmpty", "stats"}

\* what main of the scan command establishes before it scans
ScannerChecks == {"main"} \cup ScannerStartupPcs

\* the scan command starts: loadConfig and validateConfig (a throw is
\* fatal), then main runs up to the await of backupManager.initialize
ScannerStart(valid) ==
    /\ scan.pc = "main"
    /\ scan' = IF valid THEN [scan EXCEPT !.pc = "backupInit", !.passed = {"main"}]
                        ELSE [scan EXCEPT !.pc = "exited", !.exitCode = "1"]
    /\ UNCHANGED ScanRest

\* backupManager.initialize, mongoService.connect, mongoService.isEmpty or
\* queueService.getStats settles: a rejection is fatal (exit code 1), an
\* empty collection ends the command with exit code 0, otherwise main goes
\* on, after getStats into scannerService.scanAndQueue
ScannerStartupStep(fault) ==
    /\ scan.pc \in ScannerStartupPcs
    /\ scan' = IF fault
                  THEN [scan EXCEPT !.pc = "exited", !.exitCode = "1"]
               ELSE IF scan.pc = "isEmpty" /\ scan.records = <<>>
                  THEN [scan EXCEPT !.pc = "exited", !.exitCode = "0"]
               ELSE [scan EXCEPT !.pc = ScannerStartupNext(scan.pc),
                                 !.passed = @ \cup {scan.pc}]
    /\ UNCHANGED ScanRest

\* main of the scan command after scanAndQueue: the statistics are read and
\* logged and the process exits with 0; a throw of scanAndQueue or of the
\* statistics calls is fatal
ScannerExit(fault) ==
    /\ scan.pc \in {"returned", "thrown"}
    /\ scan' = [scan EXCEPT !.pc = "exited",
                   !.exitCode = IF fault \/ scan.pc = "thrown" THEN "1" ELSE "0"]
    /\ UNCHANGED ScanRest

\* the SIGINT / SIGTERM handler of the scan command: process.exit(0)
ScannerSignal ==
    /\ scan.pc \notin {"idle", "exited"}
    /\ scan' = [scan EXCEPT !.pc = "exited", !.exitCode = "0", !.signalled = TRUE]
    /\ UNCHANGED ScanRest

\* scanAndQueue is called: up to the await of getDocumentCount
ScanStart ==
    /\ scan.pc = "called"
    /\ scan' = [scan EXCEPT !.pc = "count"]
    /\ UNCHANGED ScanRest

\* getDocumentCount resolves or rejects
ScanCounted(fault) ==
    /\ scan.pc = "count"
    /\ scan' = [scan EXCEPT !.pc = IF fault THEN "thrown" ELSE "fetch"]
    /\ UNCHANGED ScanRest

BatchLengthOneMore(left, batchSize) ==
    IF left < batchSize + 1 THEN left ELSE batchSize + 1

\* fetchDocumentsBatch: records are pushed until batch.length >= batchSize
\* or the cursor (left records to go) is exhausted
BatchLength(left, batchSize) ==
    IF left < batchSize THEN left ELSE batchSize

\* the batch generator yields the next batch, ends, or throws
ScanFetched(fault) ==
    /\ scan.pc = "fetch"
    /\ scan' =
          IF fault THEN [scan EXCEPT !.pc = "thrown"]
          ELSE IF scan.cursor = <<>> THEN [scan EXCEPT !.pc = "returned"]
          ELSE LET n == BatchLength(Len(scan.cursor), ScanBatchSize)
               IN  ScanResume([scan EXCEPT !.cursor = SubSeq(@, n + 1, Len(@)),
                                           !.batches = Append(@, SubSeq(scan.cursor, 1, n))],
                              SubSeq(scan.cursor, 1, n), scan.stats)
    /\ UNCHANGED ScanRest

ScanBackedUpSkipsOnFault(fault) ==
    /\ scan.pc = "backup"
    /\ scan' =
          IF fault
             THEN ScanResume([scan EXCEPT !.snapshotFailures = @ + 1],
                             scan.items, scan.stats)
             ELSE [scan EXCEPT !.pc = "enqueue", !.backups = Append(@, scan.doc),
                               !.stats.backedUp = @ + 1]
    /\ UNCHANGED ScanRest

\* handleInvalidDocument step 1: saveBackup resolves or rejects; either way
\* step 2 starts, up to the await of addJob
ScanBackedUp(fault) ==
    /\ scan.pc = "backup"
    /\ scan' =
          IF fault
             THEN [scan EXCEPT !.pc = "enqueue", !.snapshotFailures = @ + 1]
             ELSE [scan EXCEPT !.pc = "enqueue", !.backups = Append(@, scan.doc),
                               !.stats.backedUp = @ + 1]
    /\ UNCHANGED ScanRest

ScanQueuedFaultUncounted(fault) ==
    /\ scan.pc = "enqueue"
    /\ scan' =
          IF fault
             THEN ScanResume([scan EXCEPT !.enqueueFailures = @ + 1], scan.items,
                             scan.stats)
             ELSE ScanResume(
                     [scan EXCEPT !.jobs = Append(@,
                         QueueMessage(scan.doc, Validate(scan.doc).errors))],
                     scan.items, Queued(scan.stats))
    /\ UNCHANGED ScanRest

\* handleInvalidDocument step 2: addJob resolves or rejects; the batch loop
\* goes on
ScanQueued(fault) ==
    /\ scan.pc = "enqueue"
    /\ scan' =
          IF fault
             THEN ScanResume([scan EXCEPT !.enqueueFailures = @ + 1], scan.items,
                             [scan.stats EXCEPT !.errors = @ + 1])
             ELSE ScanResume(
                     [scan EXCEPT !.jobs = Append(@,
                         QueueMessage(scan.doc, Validate(scan.doc).errors))],
                     scan.items, Queued(scan.stats))
    /\ UNCHANGED ScanRest

\* mongoService.findById over the scanned collection
FindInRecords(records, documentId) ==
    IF \E k \in 1..Len(records) : records[k]._id = documentId
       THEN records[CHOOSE k \in 1..Len(records) : records[k]._id = documentId]
       ELSE NoDoc

\* ScannerService.scanDocument, called after the scan run has ended: look
\* the record up, validate it, return the verdict (false when the record
\* is absent or the lookup throws)
ScanDocument(documentId, fault) ==
    /\ scan.pc \in {"returned", "thrown"}
    /\ LET doc == IF fault THEN NoDoc ELSE FindInRecords(scan.records, documentId)
           result == IF doc = NoDoc THEN "false"
                     ELSE IF Validate(doc).isValid THEN "true" ELSE "false"
       IN  scan' = [scan EXCEPT !.single = [id |-> documentId, result |-> result]]
    /\ UNCHANGED ScanRest

\* ids scanDocument is called with: the first record's and one no record has
SingleIds == {ScanIdNames[1], ScanIdNames[Len(ScanIdNames)]}

InitScan ==
    /\ retryMaxAttempts = 1
    /\ store = [i \in Ids |-> NoDoc]
    /\ upd = [c \in Callers |-> IdleCall]
    /\ batch = [b \in BatchCallers |-> IdleBatch]
    /\ queue = [w \in Items |-> IdleJob]
    /\ wk = [w \in Items |-> IdleWorker]
    /\ reportFile = <<>>
    /\ appended = [w \in Items |-> NoneAppended]
    /\ archive = {}
    /\ cd = IdleCorrect
    /\ vl = IdleValidate
    /\ consumer = IdleConsumer
    /\ reportExists = TRUE
    /\ rh = IdleRetry
    /\ reportStats = NoReportStats
    /\ \E rs \in RecordSets :
          scan = [IdleScan EXCEPT !.pc = "main", !.records = rs, !.cursor = rs]

NextScan ==
    \/ \E valid \in BOOLEAN : ScannerStart(valid)
    \/ \E fault \in BOOLEAN : ScannerStartupStep(fault)
    \/ \E fault \in BOOLEAN : ScannerExit(fault)
    \/ ScanStart
    \/ \E fault \in BOOLEAN : ScanCounted(fault)
    \/ \E fault \in BOOLEAN : ScanFetched(fault)
    \/ \E fault \in BOOLEAN : ScanBackedUp(fault)
    \/ \E fault \in BOOLEAN : ScanQueued(fault)
    \/ \E documentId \in SingleIds, fault \in BOOLEAN :
          ScanDocument(documentId, fault)

SpecScan == InitScan /\ [][NextScan]_vars

----------------------------------------------------------------------------
(* Queue and correction worker loop (consumer.ts over QueueService) *)

\* attempts of defaultJobOptions: how often the queue invokes the worker
\* callback for one job before it moves the job to failed
QueueAttemptsOneMore(maxAttempts) == maxAttempts + 1

QueueAttempts(maxAttempts) == maxAttempts

\* the escalation test of the catch block: retryCount >= retryMaxAttempts - 1
LastRetryOneEarlier(retryCount, maxAttempts) == retryCount >= maxAttempts - 2

LastRetry(retryCount, maxAttempts) == retryCount >= maxAttempts - 1

CreateFailureEntryGenericReason(w, document, validationErrors, failureReason, retryAttempts, backupFilePath) ==
    [job |-> w,
     mongoId |-> IF Truthy(document._id) THEN document._id ELSE "no-id",
     retryAttempts |-> retryAttempts,
     failureReason |-> Err("max-retries", retryAttempts),
     originalValidationErrors |-> validationErrors,
     backupFilePath |-> backupFilePath]

\* FailureReportManager.createFailureEntry as the catch block calls it; the
\* job field stands for the entry's timestamp, which tells entries apart
CreateFailureEntry(w, document, validationErrors, failureReason, retryAttempts, backupFilePath) ==
    [job |-> w,
     mongoId |-> IF Truthy(document._id) THEN document._id ELSE "no-id",
     retryAttempts |-> retryAttempts,
     failureReason |-> failureReason,
     originalValidationErrors |-> validationErrors,
     backupFilePath |-> backupFilePath]

\* the queue's reaction to a rejected callback: retry after the backoff
\* while attempts remain, otherwise the job is failed for good
JobAfterThrow(job) ==
    IF job.attemptsMade < QueueAttempts(retryMaxAttempts)
        THEN [job EXCEPT !.state = "waiting"]
        ELSE [job EXCEPT !.state = "failed"]

\* the callback rejects with error; the model keeps the message the queue
\* records (failedReason) for the attempt that moves the job to failed
Rethrow(job, error) ==
    LET j == JobAfterThrow(job)
    IN  IF j.state = "failed" THEN [j EXCEPT !.failedReason = error] ELSE j

\* the scan pipeline finds an invalid record, writes its snapshot and
\* enqueues its WorkItem
ScanEnqueue(w, id) ==
    /\ queue[w].state = "none"
    /\ store[id] # NoDoc
    /\ ~Validate(store[id]).isValid
    /\ queue' = [queue EXCEPT ![w] =
          [IdleJob EXCEPT !.state = "waiting",
                          !.data = QueueMessage(store[id], Validate(store[id]).errors),
                          !.snapshotPath = SaveBackupPath(store[id])]]
    /\ UNCHANGED <<retryMaxAttempts, store, upd, batch, wk, reportFile, appended,
                   archive, cd, vl, scan, consumer, reportExists, rh, reportStats>>

\* the queue hands the job to the worker callback, which runs up to the
\* await of aiProcessor.correctDocument
Deliver(w) ==
    /\ queue[w].state = "waiting"
    /\ queue' = [queue EXCEPT ![w].state = "active", ![w].attemptsMade = @ + 1]
    /\ wk' = [wk EXCEPT ![w] = [IdleWorker EXCEPT !.pc = "ai"]]
    /\ UNCHANGED <<retryMaxAttempts, store, upd, batch, reportFile, appended,
                   archive, cd, vl, scan, consumer, reportExists, rh, reportStats>>

\* the catch block of the callback with the error caught: escalate on the
\* last retry (up to the await inside logFailure), then rethrow to the queue
CatchBlock(w, error) ==
    LET job == [queue[w] EXCEPT
                   !.onlyInvalid = @ /\ error.msg = "ai-still-invalid"]
    IN  IF LastRetry(job.data.retryCount, retryMaxAttempts)
           THEN /\ wk' = [wk EXCEPT ![w] = [@ EXCEPT !.pc = "logRead", !.error = error]]
                /\ queue' = [queue EXCEPT ![w] = job]
           ELSE /\ wk' = [wk EXCEPT ![w] = IdleWorker]
                /\ queue' = [queue EXCEPT ![w] = Rethrow(job, error)]

AIResolveSkipsRevalidation(w, outcome) ==
    /\ wk[w].pc = "ai"
    /\ LET r == CorrectDocument(queue[w].data.failedDocument, outcome)
       IN  IF ~r.ok
              THEN CatchBlock(w, Err(r.error, 0)) /\ upd' = upd
           ELSE /\ wk' = [wk EXCEPT ![w] = [@ EXCEPT !.pc = "update", !.corrected = r.doc]]
                /\ upd' = [upd EXCEPT ![w] = UpdBegin(queue[w].data.documentId, r.doc)]
                /\ queue' = queue
    /\ UNCHANGED <<retryMaxAttempts, store, batch, reportFile, appended, archive, cd, vl, scan, consumer, reportExists, rh, reportStats>>

\* step 1 resolves; step 2 validates the candidate; step 3 starts the update
AIResolve(w, outcome) ==
    /\ wk[w].pc = "ai"
    /\ LET r == CorrectDocument(queue[w].data.failedDocument, outcome)
           v == Validate(r.doc)
       IN  IF ~r.ok
              THEN CatchBlock(w, Err(r.error, 0)) /\ upd' = upd
           ELSE IF ~v.isValid
              THEN CatchBlock(w, Err("ai-still-invalid", Len(v.errors))) /\ upd' = upd
           ELSE /\ wk' = [wk EXCEPT ![w] = [@ EXCEPT !.pc = "update", !.corrected = r.doc]]
                /\ upd' = [upd EXCEPT ![w] = UpdBegin(queue[w].data.documentId, r.doc)]
                /\ queue' = queue
    /\ UNCHANGED <<retryMaxAttempts, store, batch, reportFile, appended, archive, cd, vl, scan, consumer, reportExists, rh, reportStats>>

\* updaterService.updateDocument settled: true goes on to step 4, false or a
\* thrown error goes to the catch block
WorkerAfterUpdate(w) ==
    /\ wk[w].pc = "update"
    /\ upd[w].pc = "done"
    /\ upd' = [upd EXCEPT ![w] = IdleCall]
    /\ IF upd[w].outcome = "true"
          THEN /\ wk' = [wk EXCEPT ![w].pc = "save"]
               /\ queue' = queue
       ELSE IF upd[w].outcome = "false"
          THEN CatchBlock(w, Err("update-false", 0))
       ELSE CatchBlock(w, upd[w].error)
    /\ UNCHANGED <<retryMaxAttempts, store, batch, reportFile, appended, archive, cd, vl, scan, consumer, reportExists, rh, reportStats>>

SaveResolveThrowsOnFailure(w, saved) ==
    /\ wk[w].pc = "save"
    /\ archive' = IF saved THEN archive \cup {wk[w].corrected} ELSE archive
    /\ IF saved
          THEN /\ wk' = [wk EXCEPT ![w] = IdleWorker]
               /\ queue' = [queue EXCEPT ![w].state = "completed"]
          ELSE CatchBlock(w, Err("archive-failed", 0))
    /\ UNCHANGED <<retryMaxAttempts, store, upd, batch, reportFile, appended, cd, vl, scan, consumer, reportExists, rh, reportStats>>

\* step 4 resolves, saved or not: the callback returns and the job completes
SaveResolve(w, saved) ==
    /\ wk[w].pc = "save"
    /\ archive' = IF saved THEN archive \cup {wk[w].corrected} ELSE archive
    /\ wk' = [wk EXCEPT ![w] = IdleWorker]
    /\ queue' = [queue EXCEPT ![w].state = "completed"]
    /\ UNCHANGED <<retryMaxAttempts, store, upd, batch, reportFile, appended, cd, vl, scan, consumer, reportExists, rh, reportStats>>

LogReadFaultEscapes(w, fault) ==
    /\ wk[w].pc = "logRead"
    /\ IF fault \/ ~reportExists
          THEN /\ wk' = [wk EXCEPT ![w] = IdleWorker]
               /\ queue' = [queue EXCEPT ![w] = Rethrow(@, Err("report-error", 0))]
          ELSE /\ wk' = [wk EXCEPT ![w] = [@ EXCEPT !.pc = "logWrite",
                     !.content = Append(reportFile,
                         CreateFailureEntry(w, queue[w].data.failedDocument,
                             queue[w].data.validationErrors, wk[w].error,
                             queue[w].data.retryCount + 1,
                             BackupFilePath(queue[w].data.failedDocument,
                                            queue[w].data.documentId)))]]
               /\ queue' = queue
    /\ appended' = IF fault \/ ~reportExists
                       THEN [appended EXCEPT ![w].faulted = @ + 1]
                       ELSE appended
    /\ UNCHANGED <<retryMaxAttempts, store, upd, batch, reportFile, archive, cd, vl, scan, consumer, reportExists, rh, reportStats>>

\* logFailure: fs.readFile resolves; the new content is built from what was
\* read, up to the await of fs.writeFile.  A read error is contained by the
\* catch around logFailure and the original error is rethrown.
LogRead(w, fault) ==
    /\ wk[w].pc = "logRead"
    /\ IF fault \/ ~reportExists
          THEN /\ wk' = [wk EXCEPT ![w] = IdleWorker]
               /\ queue' = [queue EXCEPT ![w] = Rethrow(@, wk[w].error)]
          ELSE /\ wk' = [wk EXCEPT ![w] = [@ EXCEPT !.pc = "logWrite",
                     !.content = Append(reportFile,
                         CreateFailureEntry(w, queue[w].data.failedDocument,
                             queue[w].data.validationErrors, wk[w].error,
                             queue[w].data.retryCount + 1,
                             BackupFilePath(queue[w].data.failedDocument,
                                            queue[w].data.documentId)))]]
               /\ queue' = queue
    /\ appended' = IF fault \/ ~reportExists
                       THEN [appended EXCEPT ![w].faulted = @ + 1]
                       ELSE appended
    /\ UNCHANGED <<retryMaxAttempts, store, upd, batch, reportFile, archive, cd, vl, scan, consumer, reportExists, rh, reportStats>>

\* logFailure: fs.writeFile resolves (the whole file is rewritten), then the
\* original error is rethrown to the queue
LogWrite(w, fault) ==
    /\ wk[w].pc = "logWrite"
    /\ reportFile' = IF fault THEN reportFile ELSE wk[w].content
    /\ appended' = IF fault THEN [appended EXCEPT ![w].faulted = @ + 1]
                            ELSE [appended EXCEPT ![w].written = @ + 1]
    /\ reportExists' = (reportExists \/ ~fault)
    /\ wk' = [wk EXCEPT ![w] = IdleWorker]
    /\ queue' = [queue EXCEPT ![w] = Rethrow(@, wk[w].error)]
    /\ UNCHANGED <<retryMaxAttempts, store, upd, batch, archive, cd, vl, scan, consumer, rh, reportStats>>

RECURSIVE SumWritten(_)
SumWritten(ws) ==
    IF ws = {} THEN 0
    ELSE LET w == CHOOSE x \in ws : TRUE
         IN  appended[w].written + SumWritten(ws \ {w})

\* the logFailure calls that have succeeded
SuccessfulLogs == SumWritten(Items)

\* FailureReportManager.getStats is called: a read error is answered with
\* totalFailures 0.  logged: the logFailure calls that had succeeded by then
ReportGetStats(fault) ==
    /\ reportStats' =
          IF fault \/ ~reportExists
             THEN [called |-> TRUE, read |-> FALSE, totalFailures |-> 0,
                   logged |-> SuccessfulLogs]
             ELSE [called |-> TRUE, read |-> TRUE,
                   totalFailures |-> GetStats(reportFile),
                   logged |-> SuccessfulLogs]
    /\ UNCHANGED <<retryMaxAttempts, store, upd, batch, queue, wk, reportFile,
                   appended, archive, cd, vl, scan, consumer, reportExists, rh>>

\* what the repair service may answer in the worker runs
WorkerOutcomes ==
    { Fault,
      Reply("fencejs", Doc("a", "q1", "Easy", "fence")),
      Reply("fencejson", Doc("b", "q2", "Hard", "fence")),
      Reply("none", Doc("a", "q1", "Easy", "nofence")) }

Init ==
    /\ retryMaxAttempts \in 1..MaxRetryAttempts
    /\ store = [i \in Ids |-> IF i = "a" THEN Doc("a", "q1", "easy", "fence")
                                         ELSE Doc("b", Missing, "Easy", "fence")]
    /\ upd = [c \in Callers |-> IdleCall]
    /\ batch = [b \in BatchCallers |-> IdleBatch]
    /\ queue = [w \in Items |-> IdleJob]
    /\ wk = [w \in Items |-> IdleWorker]
    /\ reportFile = <<>>
    /\ appended = [w \in Items |-> NoneAppended]
    /\ archive = {}
    /\ cd = IdleCorrect
    /\ vl = IdleValidate
    /\ scan = IdleScan
    /\ consumer = RunningConsumer
    /\ reportExists = TRUE
    /\ rh = IdleRetry
    /\ reportStats = NoReportStats

Next ==
    \/ \E w \in Items, i \in Ids : ScanEnqueue(w, i)
    \/ \E w \in Items : Deliver(w)
    \/ \E w \in Items, o \in WorkerOutcomes : AIResolve(w, o)
    \/ \E w \in Items : UpdaterStep(w)
    \/ \E w \in Items : WorkerAfterUpdate(w)
    \/ \E w \in Items, saved \in BOOLEAN : SaveResolve(w, saved)
    \/ \E w \in Items, fault \in BOOLEAN : LogRead(w, fault)
    \/ \E w \in Items, fault \in BOOLEAN : LogWrite(w, fault)
    \/ \E i \in Ids : ExternalDelete(i)

Spec == Init /\ [][Next]_vars

\* the worker loop over a collection that other clients write to as well
NextShared ==
    \/ Next
    \/ \E i \in Ids : ExternalUpdate(i)

SpecShared == Init /\ [][NextShared]_vars

\* the worker loop with one attempt per job over a collection whose second
\* record has no slug
InitSnapshots ==
    /\ retryMaxAttempts = 1
    /\ store = [i \in Ids |-> IF i = "a" THEN Doc("a", "q1", "easy", "fence")
                                         ELSE WithSlug(Doc("b", "q2", "Easy", "fence"), Missing)]
    /\ upd = [c \in Callers |-> IdleCall]
    /\ batch = [b \in BatchCallers |-> IdleBatch]
    /\ queue = [w \in Items |-> IdleJob]
    /\ wk = [w \in Items |-> IdleWorker]
    /\ reportFile = <<>>
    /\ appended = [w \in Items |-> NoneAppended]
    /\ archive = {}
    /\ cd = IdleCorrect
    /\ vl = IdleValidate
    /\ scan = IdleScan
    /\ consumer = RunningConsumer
    /\ reportExists = TRUE
    /\ rh = IdleRetry
    /\ reportStats = NoReportStats

SpecSnapshots == InitSnapshots /\ [][Next]_vars

----------------------------------------------------------------------------
(* The consumer process (main and shutdown of consumer.ts) around the      *)
(* worker loop: start-up with FailureReportManager.initialize, the signal  *)
(* handler, the grace timer and restarts over the same report and queue.   *)

\* fs.access rejects: initialize takes it as "the report does not exist"
AccessRejectsAlways(exists) == TRUE

AccessRejects(exists) == ~exists

\* where main stands before the worker exists
StartupPcs == {"access", "writeHeader", "starting", "stats", "probe"}

\* process.exit(1) of the catch of main
ExitFatal(proc) == [proc EXCEPT !.pc = "exited", !.timers = 0, !.exitCode = "1"]

\* the operator (or the process manager) starts the consumer: loadConfig
\* and validateConfig run (a throw is fatal), then main runs up to the
\* await of fs.access in failureReportManager.initialize
ConsumerStart(valid) ==
    /\ consumer.pc \in {"down", "exited"}
    /\ consumer' =
          IF valid
             THEN [IdleConsumer EXCEPT !.pc = "access", !.passed = {"config"}]
             ELSE ExitFatal(IdleConsumer)
    /\ UNCHANGED <<retryMaxAttempts, store, upd, batch, queue, wk, reportFile,
                   appended, archive, cd, vl, scan, reportExists, rh, reportStats>>

\* initialize: fs.access settles; resolved, the file is left as it is and
\* main goes on to connect; rejected, the header is about to be written
InitializeAccess ==
    /\ consumer.pc = "access"
    /\ consumer' = IF AccessRejects(reportExists)
                      THEN [consumer EXCEPT !.pc = "writeHeader"]
                      ELSE [consumer EXCEPT !.pc = "starting", !.initialized = "found"]
    /\ UNCHANGED <<retryMaxAttempts, store, upd, batch, queue, wk, reportFile,
                   appended, archive, cd, vl, scan, reportExists, rh, reportStats>>

\* initialize: fs.writeFile(header) settles; the file then holds the header
\* and no entry.  A write error is rethrown and main exits with code 1.
InitializeWrite(fault) ==
    /\ consumer.pc = "writeHeader"
    /\ IF fault
          THEN /\ consumer' = ExitFatal(consumer)
               /\ UNCHANGED <<reportFile, reportExists>>
          ELSE /\ consumer' = [consumer EXCEPT !.pc = "starting", !.initialized = "created"]
               /\ reportFile' = <<>>
               /\ reportExists' = TRUE
    /\ UNCHANGED <<retryMaxAttempts, store, upd, batch, queue, wk, appended,
                   archive, cd, vl, scan, rh, reportStats>>

\* mongoService.connect settles: main goes on to the queue, or exits
MongoConnected(fault) ==
    /\ consumer.pc = "starting"
    /\ consumer' = IF fault THEN ExitFatal(consumer)
                            ELSE [consumer EXCEPT !.pc = "stats",
                                                  !.passed = @ \cup {"store"}]
    /\ UNCHANGED <<retryMaxAttempts, store, upd, batch, queue, wk, reportFile,
                   appended, archive, cd, vl, scan, reportExists, rh, reportStats>>

\* queueService.getStats settles: main goes on to the probe, or exits
QueueStatsRead(fault) ==
    /\ consumer.pc = "stats"
    /\ consumer' = IF fault THEN ExitFatal(consumer)
                            ELSE [consumer EXCEPT !.pc = "probe",
                                                  !.passed = @ \cup {"queue"}]
    /\ UNCHANGED <<retryMaxAttempts, store, upd, batch, queue, wk, reportFile,
                   appended, archive, cd, vl, scan, reportExists, rh, reportStats>>

StartWorkerIgnoresProbe(fault) ==
    /\ consumer.pc = "probe"
    /\ consumer' = [consumer EXCEPT !.pc = "running",
                        !.passed = IF fault THEN @ ELSE @ \cup {"probe"}]
    /\ UNCHANGED <<retryMaxAttempts, store, upd, batch, queue, wk, reportFile,
                   appended, archive, cd, vl, scan, reportExists, rh, reportStats>>

\* aiProcessor.testConnection settles (fault: it returned false): the
\* worker is created, or main throws and exits with code 1
StartWorker(fault) ==
    /\ consumer.pc = "probe"
    /\ consumer' = IF fault THEN ExitFatal(consumer)
                            ELSE [consumer EXCEPT !.pc = "running",
                                                  !.passed = @ \cup {"probe"}]
    /\ UNCHANGED <<retryMaxAttempts, store, upd, batch, queue, wk, reportFile,
                   appended, archive, cd, vl, scan, reportExists, rh, reportStats>>

\* shutdown(signal): returns at once when the flag is set; otherwise sets
\* the flag and arms the 5 s timer.  It closes neither worker nor queue.
Shutdown ==
    /\ consumer.pc \in StartupPcs \cup {"running"}
    /\ consumer' = IF consumer.isShuttingDown
                      THEN consumer
                      ELSE [consumer EXCEPT !.isShuttingDown = TRUE, !.timers = @ + 1]
    /\ UNCHANGED <<retryMaxAttempts, store, upd, batch, queue, wk, reportFile,
                   appended, archive, cd, vl, scan, reportExists, rh, reportStats>>

\* the timer fires: process.exit(0).  Callbacks in flight end where they
\* stand; their jobs stay active in the queue.
GraceTimeout ==
    /\ consumer.pc \in StartupPcs \cup {"running"}
    /\ consumer.timers > 0
    /\ consumer' = [consumer EXCEPT !.pc = "exited", !.timers = 0, !.exitCode = "0"]
    /\ wk' = [w \in Items |-> IdleWorker]
    /\ upd' = [c \in Callers |-> IF c \in Items THEN IdleCall ELSE upd[c]]
    /\ UNCHANGED <<retryMaxAttempts, store, batch, queue, reportFile, appended,
                   archive, cd, vl, scan, reportExists, rh, reportStats>>

\* a step of the worker created by main: it exists while main is running
WorkerStep ==
    /\ consumer.pc = "running"
    /\ \/ \E w \in Items : Deliver(w)
       \/ \E w \in Items, o \in WorkerOutcomes : AIResolve(w, o)
       \/ \E w \in Items : UpdaterStep(w)
       \/ \E w \in Items : WorkerAfterUpdate(w)
       \/ \E w \in Items, saved \in BOOLEAN : SaveResolve(w, saved)
       \/ \E w \in Items, fault \in BOOLEAN : LogRead(w, fault)
       \/ \E w \in Items, fault \in BOOLEAN : LogWrite(w, fault)

\* a fresh deployment: no report, nothing queued, the consumer not started
InitConsumer ==
    /\ retryMaxAttempts \in 1..MaxRetryAttempts
    /\ store = [i \in Ids |-> IF i = "a" THEN Doc("a", "q1", "easy", "fence")
                                         ELSE Doc("b", Missing, "Easy", "fence")]
    /\ upd = [c \in Callers |-> IdleCall]
    /\ batch = [b \in BatchCallers |-> IdleBatch]
    /\ queue = [w \in Items |-> IdleJob]
    /\ wk = [w \in Items |-> IdleWorker]
    /\ reportFile = <<>>
    /\ appended = [w \in Items |-> NoneAppended]
    /\ archive = {}
    /\ cd = IdleCorrect
    /\ vl = IdleValidate
    /\ scan = IdleScan
    /\ consumer = IdleConsumer
    /\ reportExists = FALSE
    /\ rh = IdleRetry
    /\ reportStats = NoReportStats

NextConsumer ==
    \/ \E valid \in BOOLEAN : ConsumerStart(valid)
    \/ InitializeAccess
    \/ \E fault \in BOOLEAN : InitializeWrite(fault)
    \/ \E fault \in BOOLEAN : MongoConnected(fault)
    \/ \E fault \in BOOLEAN : QueueStatsRead(fault)
    \/ \E fault \in BOOLEAN : StartWorker(fault)
    \/ Shutdown
    \/ GraceTimeout
    \/ \E w \in Items, i \in Ids : ScanEnqueue(w, i)
    \/ WorkerStep

SpecConsumer == InitConsumer /\ [][NextConsumer]_vars

\* the consumer with one attempt per job, and a caller of the report's
\* getStats
InitReport ==
    /\ InitConsumer
    /\ retryMaxAttempts = 1

NextReport ==
    \/ NextConsumer
    \/ \E fault \in BOOLEAN : ReportGetStats(fault)

SpecReport == InitReport /\ [][NextReport]_vars

\* both commands on one deployment: the scan command over a small
\* collection, and the consumer with a WorkItem of an earlier scan waiting
InitCommands ==
    /\ retryMaxAttempts = 1
    /\ store = [i \in Ids |-> IF i = "a" THEN Doc("a", "q1", "easy", "fence")
                                         ELSE Doc("b", Missing, "Easy", "fence")]
    /\ upd = [c \in Callers |-> IdleCall]
    /\ batch = [b \in BatchCallers |-> IdleBatch]
    /\ queue = [w \in Items |->
                  IF w = "w1"
                     THEN [IdleJob EXCEPT !.state = "waiting",
                              !.data = QueueMessage(Doc("a", "q1", "easy", "fence"),
                                          Validate(Doc("a", "q1", "easy", "fence")).errors)]
                     ELSE IdleJob]
    /\ wk = [w \in Items |-> IdleWorker]
    /\ reportFile = <<>>
    /\ appended = [w \in Items |-> NoneAppended]
    /\ archive = {}
    /\ cd = IdleCorrect
    /\ vl = IdleValidate
    /\ consumer = IdleConsumer
    /\ reportExists = FALSE
    /\ rh = IdleRetry
    /\ reportStats = NoReportStats
    /\ \E rs \in {r \in RecordSets : Len(r) <= 1} :
          scan = [IdleScan EXCEPT !.pc = "main", !.records = rs, !.cursor = rs]

ConsumerLifecycle ==
    \/ \E valid \in BOOLEAN : ConsumerStart(valid)
    \/ InitializeAccess
    \/ \E fault \in BOOLEAN : InitializeWrite(fault)
    \/ \E fault \in BOOLEAN : MongoConnected(fault)
    \/ \E fault \in BOOLEAN : QueueStatsRead(fault)
    \/ \E fault \in BOOLEAN : StartWorker(fault)
    \/ Shutdown
    \/ GraceTimeout

NextCommands ==
    \/ ConsumerLifecycle
    \/ WorkerStep
    \/ NextScan
    \/ ScannerSignal

SpecCommands == InitCommands /\ [][NextCommands]_vars

----------------------------------------------------------------------------
(* Claims about the Safe Updater, checked under SpecUpdater *)

\* a step of some updateDocument call (its frame changes)
UpdaterActs == \E c \in Callers : upd'[c] # upd[c]

\* the call of caller c settles in this step
Settles(c) == upd[c].pc # "done" /\ upd'[c].pc = "done"

\* C1: no step of an updateDocument or updateBatch call changes the set of
\* record identifiers in the store, and a call that settles while its id is
\* absent from the store fails (throws or returns false).
C1_NeverCreates ==
    [][UpdaterActs =>
         /\ StoreIds(store') = StoreIds(store)
         /\ \A c \in Callers :
              (Settles(c) /\ store[upd'[c].id] = NoDoc)
                  => upd'[c].outcome \in {"thrown", "false"}]_vars

\* a call with an absent id has failed by not-found after its lookup, and the
\* store holds no record
C1_Witness ==
    \E c \in Callers :
        /\ upd[c].pc = "done"
        /\ upd[c].error = Err("not-found", 0)
        /\ upd[c].lookups = 1
        /\ StoreIds(store) = {}

\* C2: a call whose candidate does not validate has thrown the still-invalid
\* error carrying the validator's error count, with no lookup and no replace
\* made; and a step of a call writes only a candidate that validates.
C2_ValidatedBeforeUpdate ==
    /\ [](\A c \in Callers :
            (upd[c].pc # "idle" /\ ~Validate(upd[c].cand).isValid) =>
                /\ upd[c].pc = "done"
                /\ upd[c].outcome = "thrown"
                /\ upd[c].error = Err("still-invalid", Len(Validate(upd[c].cand).errors))
                /\ upd[c].lookups = 0
                /\ upd[c].replaces = 0)
    /\ [][UpdaterActs =>
            \A i \in Ids : store'[i] # store[i] => Validate(store'[i]).isValid]_vars

\* an invalid candidate with two errors was rejected without store access
C2_Witness ==
    \E c \in Callers :
        /\ upd[c].pc = "done"
        /\ upd[c].error = Err("still-invalid", 2)
        /\ upd[c].lookups = 0
        /\ upd[c].replaces = 0

\* C9: the lookup that finds the id absent settles the call with the not-found
\* error after exactly one lookup and no replace, and a call that threw
\* not-found made one lookup and no replace.
C9_NotFoundIsFatal ==
    /\ [][\A c \in Callers :
            (upd[c].pc = "find" /\ upd'[c] # upd[c] /\ store[upd[c].id] = NoDoc
               /\ upd'[c].error.msg # "read-error") =>
                /\ upd'[c].pc = "done"
                /\ upd'[c].outcome = "thrown"
                /\ upd'[c].error = Err("not-found", 0)
                /\ upd'[c].lookups = 1
                /\ upd'[c].replaces = 0
                /\ store' = store]_vars
    /\ [](\A c \in Callers :
            upd[c].error.msg = "not-found" =>
                upd[c].pc = "done" /\ upd[c].lookups = 1 /\ upd[c].replaces = 0)

\* a valid candidate for an absent id: not-found after one lookup, no replace
C9_Witness ==
    \E c \in Callers :
        /\ upd[c].pc = "done"
        /\ upd[c].error = Err("not-found", 0)
        /\ Validate(upd[c].cand).isValid
        /\ store[upd[c].id] = NoDoc
        /\ upd[c].lookups = 1
        /\ upd[c].replaces = 0

\* C10: the replace is invoked at most maxAttempts times; a call that threw a
\* write error invoked it exactly maxAttempts times and throws the error of
\* attempt maxAttempts; a call whose replace returned on attempt k invoked it
\* exactly k times; a settled call never invokes it again.
C10_BoundedReplaceRetry ==
    /\ [](\A c \in Callers :
            /\ upd[c].replaces <= retryMaxAttempts
            /\ (upd[c].pc = "done" /\ upd[c].error.msg = "write-error") =>
                  /\ upd[c].replaces = retryMaxAttempts
                  /\ upd[c].error = Err("write-error", retryMaxAttempts)
            /\ (upd[c].pc = "done" /\ upd[c].outcome \in {"true", "false"}) =>
                  /\ upd[c].replaces = upd[c].attempt
                  /\ upd[c].attempt \in 1..retryMaxAttempts)
    /\ [][\A c \in Callers :
            (upd[c].pc = "done" /\ upd'[c].pc = "done") =>
                upd'[c].replaces = upd[c].replaces]_vars

\* with three attempts configured, a call exhausted them on write errors
C10_Witness ==
    \E c \in Callers :
        /\ retryMaxAttempts = 3
        /\ upd[c].pc = "done"
        /\ upd[c].error = Err("write-error", 3)
        /\ upd[c].replaces = 3

----------------------------------------------------------------------------
(* Claims about the worker loop, checked under Spec *)

\* the FailureEntries of job w that the report holds
EntriesOf(w) == {k \in 1..Len(reportFile) : reportFile[k].job = w}

\* the queue is done with job w
Finished(w) == queue[w].state \in {"completed", "failed"}

\* C3: a job the queue has failed for good, every attempt of which failed
\* because the repaired candidate did not re-validate (and whose report
\* accesses did not fail), has had exactly one FailureEntry written, and its
\* entries in the report carry retryAttempts = retryMaxAttempts.
C3_ExhaustionEscalatesOnce ==
    \A w \in Items :
        (queue[w].state = "failed" /\ queue[w].onlyInvalid /\ appended[w].faulted = 0)
            => /\ appended[w].written = 1
               /\ \A k \in EntriesOf(w) : reportFile[k].retryAttempts = retryMaxAttempts

\* C4: a job the queue is done with has succeeded or has been escalated (a
\* FailureEntry was written for it), provided no report access failed.
C4_FinishedIsSucceededOrEscalated ==
    \A w \in Items :
        (Finished(w) /\ appended[w].faulted = 0)
            => (queue[w].state = "completed" \/ appended[w].written >= 1)

\* C6: the worker callback is invoked at most retryMaxAttempts times for a
\* job, and a job the queue is done with, completed or failed, is never
\* delivered again.
C6_AtMostMaxAttempts ==
    /\ [](\A w \in Items : queue[w].attemptsMade <= retryMaxAttempts)
    /\ [][\A w \in Items : Finished(w) => queue'[w] = queue[w]]_vars

\* with three attempts configured, a job was attempted three times and failed
C6_Witness ==
    \E w \in Items :
        /\ retryMaxAttempts = 3
        /\ queue[w].attemptsMade = 3
        /\ queue[w].state = "failed"

\* C7: a job for which a FailureEntry was written is not attempted again: it
\* is failed for good once the escalating attempt ends, and its attempt
\* count never grows.
C7_NoAttemptAfterEscalation ==
    /\ [](\A w \in Items :
            appended[w].written >= 1 => queue[w].state = "failed" /\ wk[w].pc = "idle")
    /\ [][\A w \in Items :
            appended[w].written >= 1 => queue'[w].attemptsMade = queue[w].attemptsMade]_vars

\* a job was escalated and the other job is still being worked on
C7_Witness ==
    \E w \in Items, x \in Items :
        /\ appended[w].written = 1
        /\ EntriesOf(w) # {}
        /\ queue[w].state = "failed"
        /\ x # w
        /\ queue[x].state = "active"

\* C8: a FailureEntry is written for a job only during the job's last
\* attempt (attempt number retryMaxAttempts) and never for a job that
\* completed, and every entry the report holds is still in the report after
\* every step.
C8_EntriesOnlyOnExhaustionAndKept ==
    /\ [](\A w \in Items : queue[w].state = "completed" => appended[w].written = 0)
    /\ [][/\ \A w \in Items :
               appended'[w].written > appended[w].written =>
                   queue[w].attemptsMade = retryMaxAttempts
          /\ \A k \in 1..Len(reportFile) :
               \E j \in 1..Len(reportFile') : reportFile'[j] = reportFile[k]]_vars

----------------------------------------------------------------------------
(* Further claims about the Safe Updater, checked under SpecUpdater *)

\* C11: the step in which the replace of a call returns settles the call at
\* once (a no-match result is not retried): with true exactly when the record
\* was in the store and is now the candidate under the same id, with false
\* and an untouched store when the record had been deleted after the
\* existence check; the step never throws and never creates a record.
C11_DeletedBeforeReplaceGivesFalse ==
    [][\A c \in Callers :
         (upd[c].pc = "replace" /\ upd'[c].replaces = upd[c].replaces + 1
            /\ upd'[c].outcome # "thrown" /\ upd'[c].attempt = upd[c].attempt) =>
             /\ upd'[c].pc = "done"
             /\ StoreIds(store') = StoreIds(store)
             /\ IF store[upd[c].id] = NoDoc
                   THEN upd'[c].outcome = "false" /\ store' = store
                   ELSE /\ upd'[c].outcome = "true"
                        /\ store'[upd[c].id] = [upd[c].cand EXCEPT !._id = upd[c].id]]_vars

\* a call found its record, the record was deleted, and the replace returned
\* false on the first attempt
C11_Witness ==
    \E c \in Callers :
        /\ upd[c].pc = "done"
        /\ upd[c].outcome = "false"
        /\ upd[c].lookups = 1
        /\ upd[c].replaces = 1
        /\ store[upd[c].id] = NoDoc

----------------------------------------------------------------------------
(* Claims about the Validator, checked under SpecValidate *)

\* the validate call returned and nothing threw on the way
ReturnedClean ==
    /\ vl.pc = "returned"
    /\ vl.document # NoDoc
    /\ ~vl.zodThrows
    /\ ~(vl.customThrows /\ vl.result.customRan)

\* an exception was raised inside the validate call that returned
ReturnedAfterException ==
    /\ vl.pc = "returned"
    /\ \/ vl.document = NoDoc
       \/ vl.zodThrows
       \/ vl.customThrows /\ vl.result.customRan

\* C12: a validate call in which an exception was raised (null candidate,
\* structural pass, semantic pass) returns isValid = FALSE with exactly one
\* error, invalid value on field document.
C12_ExceptionBecomesOneDocumentError ==
    ReturnedAfterException =>
        /\ vl.result.isValid = FALSE
        /\ vl.result.errors = <<[field |-> "document", code |-> "INVALID_VALUE"]>>

\* C13: when nothing throws, the semantic checks run exactly when the
\* structural pass found no error, the error list is the structural errors
\* when there are any and the semantic errors otherwise, and isValid is true
\* exactly when the error list is empty.
C13_SemanticOnlyAfterCleanStructural ==
    ReturnedClean =>
        LET zodErrors == ValidateWithZod(vl.document)
        IN  /\ vl.result.customRan <=> (zodErrors = <<>>)
            /\ vl.result.errors =
                  IF zodErrors # <<>> THEN zodErrors
                  ELSE PerformCustomValidations(vl.document)
            /\ vl.result.isValid <=> (vl.result.errors = <<>>)

\* a record with an empty test-case list and no fence marker came back with
\* the structural error alone
C13_Witness ==
    /\ ReturnedClean
    /\ vl.document = [ValidDoc EXCEPT !.testCases = <<>>, !.inputFormat = "nofence"]
    /\ vl.result.errors = <<[field |-> "testCases", code |-> "EMPTY_ARRAY"]>>
    /\ ~vl.result.isValid

\* C14: when nothing throws, a record with keys outside the schema's key set
\* is invalid, and the errors of kind extra-field are one per such key, each
\* naming its key.
C14_OneExtraFieldErrorPerKey ==
    (ReturnedClean /\ vl.document # NonObject /\ vl.document.extra # <<>>) =>
        LET extraErrors == SelectSeq(vl.result.errors, LAMBDA e : e.code = "EXTRA_FIELD")
        IN  /\ ~vl.result.isValid
            /\ Len(extraErrors) = Len(vl.document.extra)
            /\ \A k \in 1..Len(vl.document.extra) :
                  extraErrors[k].field = ExtraFieldPath(vl.document.extra[k])

\* an otherwise valid record with the two extra keys bar and foo came back
\* with exactly the two extra-field errors
C14_Witness ==
    /\ ReturnedClean
    /\ vl.document = [ValidDoc EXCEPT !.extra = <<"bar", "foo">>]
    /\ vl.result.errors = <<[field |-> ".bar", code |-> "EXTRA_FIELD"],
                            [field |-> ".foo", code |-> "EXTRA_FIELD"]>>

\* C15: when nothing throws, an otherwise valid record whose difficulty is a
\* string other than Easy, Medium, Hard is invalid with exactly one error:
\* invalid value on field difficulty.
C15_DifficultyIsCaseExact ==
    \A d \in DifficultyStrings \ {"Easy", "Medium", "Hard"} :
        (ReturnedClean /\ vl.document = [ValidDoc EXCEPT !.difficulty = d]) =>
            /\ ~vl.result.isValid
            /\ vl.result.errors = <<[field |-> "difficulty", code |-> "INVALID_VALUE"]>>

\* difficulty "easy" was rejected with the one error
C15_Witness ==
    /\ ReturnedClean
    /\ vl.document = [ValidDoc EXCEPT !.difficulty = "easy"]
    /\ vl.result.errors = <<[field |-> "difficulty", code |-> "INVALID_VALUE"]>>

\* the string has "=" or has a bracket pair together with a comma
StructuredLiteral(s) ==
    Includes(s, "=") \/ (Includes(s, "[") /\ Includes(s, "]") /\ Includes(s, ","))

\* the result carries the stdin/stdout error for this part of this test case
Flagged(errors, id, part) ==
    \E j \in 1..Len(errors) :
        /\ errors[j].field = "testCases"
        /\ errors[j].message = [about |-> "Test case", id |-> id, part |-> part]

\* C16: when nothing throws and the record is structurally valid, the input
\* of a test case is flagged exactly when it has "=" or a bracket pair with
\* a comma, and so is its expected output.
C16_FlaggedExactlyOnAssignmentOrList ==
    (ReturnedClean /\ vl.document # NonObject /\ ValidateWithZod(vl.document) = <<>>) =>
        \A k \in 1..Len(vl.document.testCases) :
            LET tc == vl.document.testCases[k]
            IN  /\ Flagged(vl.result.errors, tc.id, "input")
                      <=> StructuredLiteral(tc.input)
                /\ Flagged(vl.result.errors, tc.id, "expectedOutput")
                      <=> StructuredLiteral(tc.expectedOutput)

----------------------------------------------------------------------------
(* Claims about the scan pipeline, checked under SpecScan *)

\* how many records of rs validate (valid = TRUE) or do not (valid = FALSE)
CountOf(rs, valid) ==
    Cardinality({k \in 1..Len(rs) : Validate(rs[k]).isValid = valid})

\* C17: when saveBackup settles, failed or not, the enqueue of the same
\* record is attempted next, and a failed snapshot does not count as backed
\* up; when addJob succeeds the record is enqueued and counted as queued;
\* when addJob fails the error counter goes up by one and the batch loop
\* goes on; and a scan that returns has scanned every record, with the
\* counters accounting for every failure.
C17_SnapshotAndEnqueueFailuresContained ==
    /\ [][(scan.pc = "backup" /\ scan' # scan) =>
            /\ scan'.pc = "enqueue"
            /\ scan'.doc = scan.doc
            /\ scan'.snapshotFailures > scan.snapshotFailures =>
                  scan'.stats.backedUp = scan.stats.backedUp]_vars
    /\ [][(scan.pc = "enqueue" /\ scan' # scan) =>
            /\ scan'.pc \in {"backup", "fetch"}
            /\ IF scan'.enqueueFailures > scan.enqueueFailures
                  THEN /\ scan'.stats.errors = scan.stats.errors + 1
                       /\ scan'.stats.queued = scan.stats.queued
                       /\ scan'.jobs = scan.jobs
                  ELSE /\ scan'.stats.queued = scan.stats.queued + 1
                       /\ Len(scan'.jobs) = Len(scan.jobs) + 1
                       /\ scan'.jobs[Len(scan'.jobs)].failedDocument = scan.doc]_vars
    /\ [](scan.pc = "returned" =>
            /\ scan.stats.totalScanned = Len(scan.records)
            /\ scan.stats.invalidDocuments = CountOf(scan.records, FALSE)
            /\ scan.stats.backedUp =
                  CountOf(scan.records, FALSE) - scan.snapshotFailures
            /\ scan.stats.queued =
                  CountOf(scan.records, FALSE) - scan.enqueueFailures
            /\ scan.stats.errors = scan.enqueueFailures
            /\ Len(scan.jobs) = scan.stats.queued)

\* a scan of three invalid records returned after one snapshot failure whose
\* record was enqueued all the same, and one enqueue failure
C17_Witness ==
    /\ scan.pc = "returned"
    /\ Len(scan.records) = 3
    /\ scan.stats.totalScanned = 3
    /\ scan.snapshotFailures = 1
    /\ scan.enqueueFailures = 1
    /\ scan.stats.queued = 2
    /\ scan.stats.backedUp = 2
    /\ Len(scan.backups) = 2
    /\ scan.jobs[1].failedDocument # scan.backups[1]

\* C18: a scan without snapshot or enqueue failures that returns has
\* totalScanned = v + i, validDocuments = v, invalidDocuments = i,
\* backedUp = i, queued = i, errors = 0 and has enqueued exactly i messages,
\* for the v valid and i invalid records of the collection.
C18_ScanStatsExact ==
    (scan.pc = "returned" /\ scan.snapshotFailures = 0 /\ scan.enqueueFailures = 0) =>
        LET v == CountOf(scan.records, TRUE)
            i == CountOf(scan.records, FALSE)
        IN  /\ scan.stats = [totalScanned |-> v + i, validDocuments |-> v,
                             invalidDocuments |-> i, backedUp |-> i,
                             queued |-> i, errors |-> 0]
            /\ Len(scan.jobs) = i

\* three valid and two invalid records: 5 scanned, 3 valid, 2 invalid, 2 queued
C18_Witness ==
    /\ scan.pc = "returned"
    /\ scan.snapshotFailures = 0
    /\ scan.enqueueFailures = 0
    /\ CountOf(scan.records, TRUE) = 3
    /\ scan.stats = [totalScanned |-> 5, validDocuments |-> 3,
                     invalidDocuments |-> 2, backedUp |-> 2, queued |-> 2,
                     errors |-> 0]
    /\ Len(scan.jobs) = 2

\* C19: for every message the scan has enqueued, a snapshot of its record
\* was written before.
C19_BackedUpBeforeQueued ==
    \A k \in 1..Len(scan.jobs) :
        \E j \in 1..Len(scan.backups) : scan.backups[j] = scan.jobs[k].failedDocument

----------------------------------------------------------------------------
(* Claim about updateBatch, checked under SpecUpdater *)

\* the positions of the pairs whose updateDocument call did not return true
FailedPositions(t) == SelectSeq([k \in 1..Len(t.outcomes) |-> k],
                                LAMBDA k : t.outcomes[k] # "true")

\* C20: an updateBatch call that has returned called updateDocument for
\* every pair of its input, whatever the earlier calls came to; successful
\* is the number of calls that returned true, successful + failed is the
\* number of pairs, and errors holds one entry per failed pair, in order,
\* carrying that pair's id.
C20_BatchNeverAbortsAndTalliesAll ==
    \A b \in BatchCallers :
        batch[b].pc = "returned" =>
            LET t == batch[b]
                fp == FailedPositions(t)
            IN  /\ Len(t.pairs) = t.n
                /\ Len(t.outcomes) = t.n
                /\ t.successful + t.failed = t.n
                /\ t.successful = t.n - Len(fp)
                /\ Len(t.errors) = t.failed
                /\ Len(fp) = t.failed
                /\ \A k \in 1..Len(fp) : t.errors[k].documentId = t.pairs[fp[k]]

\* a batch of two pairs whose first call threw and whose second returned true
C20_Witness ==
    \E b \in BatchCallers :
        /\ batch[b].pc = "returned"
        /\ batch[b].n = 2
        /\ batch[b].outcomes = <<"thrown", "true">>
        /\ batch[b].successful = 1
        /\ batch[b].failed = 1
        /\ Len(batch[b].errors) = 1
        /\ batch[b].errors[1].documentId = batch[b].pairs[1]

----------------------------------------------------------------------------
(* Claims about the consumer process, checked under SpecConsumer *)

\* a step of FailureReportManager.initialize
InitializeActs ==
    /\ consumer.pc \in {"access", "writeHeader"}
    /\ consumer'.pc \in {"writeHeader", "starting"}

C22_NoWorkItemAcceptedAfterSignal ==
    [][consumer.isShuttingDown =>
         \A w \in Items : queue'[w].attemptsMade = queue[w].attemptsMade]_vars

----------------------------------------------------------------------------
(* Claims about the order of the worker's steps, checked under Spec *)

\* C23: the steps of one attempt run in order.  updateDocument is invoked
\* only in the step where the repair call resolves, only with the candidate
\* the repair returned, and only when that candidate passed re-validation;
\* while the call runs the callback waits for it.  The archival step is
\* entered only from the update step, when updateDocument returned true,
\* and the archive changes only in the archival step, by the candidate.
C23_StepsInOrder ==
    [][\A w \in Items :
         /\ (upd[w].pc = "idle" /\ upd'[w].pc # "idle") =>
               /\ wk[w].pc = "ai"
               /\ wk'[w].pc = "update"
               /\ wk'[w].corrected # NoDoc
               /\ Validate(wk'[w].corrected).isValid
               /\ upd'[w].cand = wk'[w].corrected
         /\ upd'[w].pc # "idle" => wk'[w].pc = "update"
         /\ (wk[w].pc # "save" /\ wk'[w].pc = "save") =>
               /\ wk[w].pc = "update"
               /\ upd[w].pc = "done"
               /\ upd[w].outcome = "true"
         /\ (wk[w].pc = "ai" /\ wk'[w].pc # "ai") =>
               wk'[w].pc \in {"update", "idle", "logRead"}
         /\ archive' # archive =>
               \E v \in Items : wk[v].pc = "save" /\ archive' = archive \cup {wk[v].corrected}]_vars

\* an attempt has gone through all four steps: its candidate is archived and
\* stored, and the job is completed
C23_Witness ==
    \E w \in Items :
        /\ queue[w].state = "completed"
        /\ store[queue[w].data.documentId] \in archive

\* C24: the archival step ends the attempt as a success whether or not the
\* archive was written: the job is completed in that step without a new
\* attempt, the store and the failure report are left as they are, and a
\* completed job stays completed and never has a FailureEntry.
C24_ArchiveFailureIsNotAJobFailure ==
    /\ [][\A w \in Items :
            /\ wk[w].pc = "save" /\ wk'[w].pc # "save" =>
                  /\ queue'[w] = [queue[w] EXCEPT !.state = "completed"]
                  /\ wk'[w] = IdleWorker
                  /\ store' = store
                  /\ reportFile' = reportFile
                  /\ appended' = appended
            /\ queue[w].state = "completed" => queue'[w] = queue[w]]_vars
    /\ [](\A w \in Items :
            queue[w].state = "completed" =>
                EntriesOf(w) = {} /\ appended[w] = NoneAppended)

\* a job is completed and its record holds a valid candidate although
\* nothing was ever archived
C24_Witness ==
    \E w \in Items :
        /\ queue[w].state = "completed"
        /\ archive = {}
        /\ store[queue[w].data.documentId] # NoDoc
        /\ Validate(store[queue[w].data.documentId]).isValid

----------------------------------------------------------------------------
(* Claims about escalation and the store under concurrent jobs, checked    *)
(* under Spec and SpecShared *)

\* C25: escalations of different jobs serialize: once no callback is inside
\* logFailure, the report holds one entry for every job whose report write
\* succeeded.
C25_ConcurrentEscalationsAllRecorded ==
    (\A w \in Items : wk[w].pc \notin {"logRead", "logWrite"}) =>
        \A w \in Items : appended[w].written > 0 => EntriesOf(w) # {}

\* C26: no lost update on a record: a replace of job w that changes the
\* record finds it as it was in the snapshot that w's candidate was derived
\* from (nothing newer has been committed to it since the scan).
C26_ReplaceOnlyOverSnapshotState ==
    [][\A w \in Items :
         (/\ upd[w].pc = "replace"
          /\ upd'[w].pc = "done"
          /\ upd'[w].outcome = "true"
          /\ store'[upd[w].id] # store[upd[w].id])
            => store[upd[w].id] = queue[w].data.failedDocument]_vars

\* C27: on the k-th attempt of a job the callback observes retryCount = k - 1
\* in the WorkItem.
C27_RetryCountIsAttemptsBefore ==
    \A w \in Items :
        queue[w].state = "active" =>
            queue[w].data.retryCount = queue[w].attemptsMade - 1

\* C28: every FailureEntry in the report, and every entry a callback is about
\* to write, carries as failureReason the error its job's last attempt
\* failed with (the one rethrown to the queue), and as
\* originalValidationErrors the errors of the WorkItem, which are the scan's
\* errors for the snapshot.
C28_EntryHasLastFailureAndOriginalErrors ==
    /\ \A k \in 1..Len(reportFile) :
          LET e == reportFile[k]
              job == queue[e.job]
          IN  /\ job.state = "failed"
              /\ e.failureReason = job.failedReason
              /\ e.originalValidationErrors = job.data.validationErrors
              /\ e.originalValidationErrors = Validate(job.data.failedDocument).errors
    /\ \A w \in Items :
          wk[w].pc = "logWrite" =>
              LET e == wk[w].content[Len(wk[w].content)]
              IN  /\ e.job = w
                  /\ e.failureReason = wk[w].error
                  /\ e.originalValidationErrors = queue[w].data.validationErrors

\* the report holds an entry of a job whose last attempt failed because the
\* candidate did not re-validate; the entry carries the scan's errors
C28_Witness ==
    \E k \in 1..Len(reportFile) :
        /\ reportFile[k].failureReason.msg = "ai-still-invalid"
        /\ reportFile[k].originalValidationErrors # <<>>
        /\ reportFile[k].originalValidationErrors
              = Validate(queue[reportFile[k].job].data.failedDocument).errors

\* C29: a failing report read or write never escapes the callback: in that
\* step the callback ends, the job goes back to the queue as failed with
\* the original error of the attempt, the report and every other job and
\* callback are left as they are, and the consumer keeps running.
C29_ReportFailureContained ==
    [][\A w \in Items :
         appended'[w].faulted > appended[w].faulted =>
            /\ wk'[w] = IdleWorker
            /\ queue'[w] = Rethrow(queue[w], wk[w].error)
            /\ queue'[w].state \in {"waiting", "failed"}
            /\ reportFile' = reportFile
            /\ consumer' = consumer
            /\ \A v \in Items \ {w} : wk'[v] = wk[v] /\ queue'[v] = queue[v]]_vars

\* a job whose escalation could not be written is failed with the error of
\* its attempt, nothing is in the report for it, and another job has been
\* completed
C29_Witness ==
    \E w \in Items, v \in Items :
        /\ appended[w].faulted > 0
        /\ queue[w].state = "failed"
        /\ queue[w].failedReason.msg = "ai-still-invalid"
        /\ EntriesOf(w) = {}
        /\ queue[v].state = "completed"

\* C30: a step of the processing of job w (its callback or its
\* updateDocument call) changes no record other than the one of w's
\* WorkItem, whatever the other jobs are doing.
C30_OnlyOwnRecordChanged ==
    [][\A w \in Items :
         (wk'[w] # wk[w] \/ upd'[w] # upd[w]) =>
            \A i \in Ids \ {queue[w].data.documentId} : store'[i] = store[i]]_vars

\* the job for record a has rewritten a while record b is as it was, and
\* the job for b is in flight
C30_Witness ==
    \E w \in Items, v \in Items :
        /\ queue[w].state = "completed"
        /\ queue[w].data.documentId = "a"
        /\ store["a"] # NoDoc
        /\ store["a"] # queue[w].data.failedDocument
        /\ store["b"] = Doc("b", Missing, "Easy", "fence")
        /\ queue[v].state = "active"
        /\ queue[v].data.documentId = "b"

----------------------------------------------------------------------------
(* Claim about the replace payload, checked under SpecUpdater *)

\* C31: the payload of every replace has no _id field, and a replace that
\* succeeds leaves the record under the id it had, with the _id it had and
\* the fields of the candidate, whatever _id the candidate carried.
C31_PayloadWithoutIdAndIdKept ==
    [][\A c \in Callers :
         (upd[c].pc = "replace" /\ upd'[c].replaces > upd[c].replaces) =>
            /\ "_id" \notin DOMAIN DocumentWithoutId(upd[c].cand)
            /\ Settles(c) /\ upd'[c].outcome = "true" =>
                  /\ store[upd[c].id] # NoDoc
                  /\ store'[upd[c].id]._id = store[upd[c].id]._id
                  /\ store'[upd[c].id]._id = upd[c].id
                  /\ \A k \in DOMAIN upd[c].cand \ {"_id"} :
                        store'[upd[c].id][k] = upd[c].cand[k]]_vars

\* a call has succeeded with a candidate that carried another record's _id,
\* and the record is stored under its own id with the candidate's fields
C31_Witness ==
    \E c \in Callers :
        /\ upd[c].pc = "done"
        /\ upd[c].outcome = "true"
        /\ upd[c].cand._id # upd[c].id
        /\ store[upd[c].id] # NoDoc
        /\ store[upd[c].id]._id = upd[c].id
        /\ store[upd[c].id].question_id = upd[c].cand.question_id

----------------------------------------------------------------------------
(* Further claims about the scan pipeline, checked under SpecScan *)

\* C32: the batches yielded so far are non-empty and hold at most batchSize
\* records, every batch but the last holds exactly batchSize (a shorter one
\* ends the cursor), the batches followed by what the cursor has yet to
\* yield are the records in cursor order, a scan that returns has read them
\* all; the records processed so far are all records of the earlier batches
\* and the processed part of the batch in hand, and a new batch is fetched
\* only when the batch in hand is drained.
C32_BatchesPartitionTheRecordsInOrder ==
    LET bs == scan.batches
    IN  /\ \A i \in 1..Len(bs) :
              /\ Len(bs[i]) >= 1
              /\ Len(bs[i]) <= ScanBatchSize
              /\ i < Len(bs) => Len(bs[i]) = ScanBatchSize
              /\ Len(bs[i]) < ScanBatchSize => scan.cursor = <<>>
        /\ Concat(bs) \o scan.cursor = scan.records
        /\ scan.pc = "returned" => Concat(bs) = scan.records
        /\ scan.stats.totalScanned = Len(Concat(bs)) - Len(scan.items)
        /\ scan.pc \in {"backup", "enqueue"} =>
              scan.doc = scan.records[scan.stats.totalScanned]
        /\ scan.pc = "fetch" => scan.items = <<>> /\ scan.doc = NoDoc
        /\ bs # <<>> =>
              scan.items = SubSeq(bs[Len(bs)],
                                  Len(bs[Len(bs)]) - Len(scan.items) + 1,
                                  Len(bs[Len(bs)]))

\* a scan has returned after three batches, the last one shorter than
\* batchSize
C32_Witness ==
    /\ scan.pc = "returned"
    /\ Len(scan.batches) = 3
    /\ Len(scan.batches[3]) < ScanBatchSize
    /\ Len(scan.batches[1]) = ScanBatchSize

\* the first n records of the scanned collection
Processed(n) == SubSeq(scan.records, 1, n)

\* C33: every message the scan has enqueued is the WorkItem of a processed
\* record that failed validation: retryCount 0, the record itself as
\* snapshot, its id, and its non-empty validation errors; every snapshot
\* written is of such a record; a scan of valid records only writes no
\* snapshot and enqueues nothing, it just counts them.  A scanDocument call
\* changes nothing but its own return value.
C33_OnlyInvalidRecordsEnqueued ==
    /\ [](LET done == Processed(scan.stats.totalScanned)
          IN  /\ \A j \in 1..Len(scan.jobs) :
                    LET msg == scan.jobs[j]
                    IN  /\ \E k \in 1..Len(done) : done[k] = msg.failedDocument
                        /\ ~Validate(msg.failedDocument).isValid
                        /\ msg.retryCount = 0
                        /\ msg.documentId = msg.failedDocument._id
                        /\ msg.validationErrors = Validate(msg.failedDocument).errors
                        /\ msg.validationErrors # <<>>
              /\ \A j \in 1..Len(scan.backups) :
                    /\ \E k \in 1..Len(done) : done[k] = scan.backups[j]
                    /\ ~Validate(scan.backups[j]).isValid
              /\ Len(scan.jobs) <= CountOf(done, FALSE)
              /\ Len(scan.backups) <= CountOf(done, FALSE)
              /\ scan.stats.validDocuments = CountOf(done, TRUE)
              /\ CountOf(done, FALSE) = 0 =>
                    /\ scan.jobs = <<>> /\ scan.backups = <<>>
                    /\ scan.stats = [NoStats EXCEPT
                                        !.totalScanned = Len(done),
                                        !.validDocuments = Len(done)])
    /\ [][scan'.single # scan.single =>
            /\ scan' = [scan EXCEPT !.single = scan'.single]
            /\ UNCHANGED ScanRest]_vars

\* a scan over valid and invalid records has returned with one message per
\* invalid record, and scanDocument has been called on an invalid record
C33_Witness ==
    /\ scan.pc = "returned"
    /\ CountOf(scan.records, TRUE) >= 1
    /\ CountOf(scan.records, FALSE) >= 1
    /\ Len(scan.jobs) = CountOf(scan.records, FALSE)
    /\ scan.stats.validDocuments = CountOf(scan.records, TRUE)
    /\ scan.single.result = "false"
    /\ FindInRecords(scan.records, scan.single.id) # NoDoc

----------------------------------------------------------------------------
(* Claim about the start-up of both commands, checked under SpecCommands *)

\* C34: the consumer's worker exists only after configuration validation,
\* store connection, queue access and the repair-service probe have all
\* succeeded in this run; a job's attempt starts only while main is
\* running; a step that ends the consumer before the worker exists starts
\* no attempt and gives exit code 1, unless it is the grace timer of a
\* termination signal that fires.  The scan command scans only after all
\* its start-up steps have succeeded; when it ends before that it has
\* scanned, snapshotted and enqueued nothing, and its exit code is 1 unless
\* it was ended by a signal or found the collection empty.
C34_WorkerOnlyAfterStartupChecks ==
    /\ [](consumer.pc = "running" => consumer.passed = StartupChecks)
    /\ [](consumer.pc \in StartupPcs =>
            /\ consumer.passed # StartupChecks
            /\ \A w \in Items : wk[w].pc = "idle")
    /\ [][/\ (\E w \in Items : queue'[w].attemptsMade # queue[w].attemptsMade)
               => (consumer.pc = "running" /\ consumer'.pc = "running")
          /\ (consumer'.pc = "exited" /\ consumer' # consumer /\ consumer.pc # "running")
               => (/\ consumer'.passed # StartupChecks
                   /\ consumer'.exitCode \in {"0", "1"}
                   /\ consumer'.exitCode = "0" => consumer.timers > 0
                   /\ queue' = queue
                   /\ store' = store)]_vars
    /\ [](scan.passed # ScannerChecks =>
            /\ scan.pc \in {"main", "exited"} \cup ScannerStartupPcs
            /\ scan.stats = NoStats
            /\ scan.batches = <<>> /\ scan.backups = <<>> /\ scan.jobs = <<>>
            /\ scan.pc = "exited" =>
                  /\ scan.exitCode \in {"0", "1"}
                  /\ scan.exitCode = "0" =>
                        (scan.signalled \/ (scan.records = <<>> /\ "connect" \in scan.passed)))
    /\ [](scan.stats.totalScanned > 0 => scan.passed = ScannerChecks)

\* the consumer has exited with code 1 on a failed probe with a job waiting
\* and no attempt made, and the scan command has exited with code 1 on a
\* failed store connection without scanning its non-empty collection
C34_Witness ==
    /\ consumer.pc = "exited"
    /\ consumer.exitCode = "1"
    /\ consumer.passed = {"config", "store", "queue"}
    /\ \E w \in Items : queue[w].state = "waiting" /\ queue[w].attemptsMade = 0
    /\ scan.pc = "exited"
    /\ scan.exitCode = "1"
    /\ scan.passed = {"main", "backupInit"}
    /\ scan.records # <<>>
    /\ scan.stats = NoStats

----------------------------------------------------------------------------
(* Claim about RetryHelper.execute, checked under SpecRetry *)

\* C35: with exponential backoff the delay slept after the k-th failed
\* attempt, k < maxAttempts, is delayMs * 2^(k-1); no delay follows the
\* final attempt; onRetry is called once for each failed attempt except the
\* last, with that attempt's number and error; and a call with 3 attempts
\* and a base of 5 s whose attempts all fail has slept 5 s, 10 s and 20 s.
C35_BackoffScheduleAndObserver ==
    /\ \A k \in 1..Len(rh.delays) :
          /\ k < rh.maxAttempts
          /\ rh.exponentialBackoff => rh.delays[k] = rh.delayMs * 2^(k - 1)
    /\ rh.outcome = "thrown" =>
          /\ Len(rh.errors) = rh.maxAttempts
          /\ Len(rh.delays) = rh.maxAttempts - 1
    /\ rh.onRetry =>
          /\ Len(rh.observed) = Len(rh.delays)
          /\ \A k \in 1..Len(rh.observed) : rh.observed[k] = <<k, rh.errors[k]>>
    /\ (/\ rh.outcome = "thrown"
        /\ rh.maxAttempts = 3
        /\ rh.delayMs = RetryDelayMs
        /\ rh.exponentialBackoff)
          => rh.delays = <<5000, 10000, 20000>>

----------------------------------------------------------------------------
(* Claim about the snapshot path of a FailureEntry, checked under
   SpecSnapshots *)

\* C36: the snapshot path recorded in every FailureEntry of the report is
\* the path the scan wrote the snapshot of that entry's record to.
C36_EntryPathIsSnapshotPath ==
    \A k \in 1..Len(reportFile) :
        reportFile[k].backupFilePath = queue[reportFile[k].job].snapshotPath

----------------------------------------------------------------------------
(* Claim about the statistics of the failure report, checked under
   SpecReport *)

\* C37: a getStats call that read the report returns as totalFailures the
\* number of logFailure calls that had succeeded: 0 for a report that
\* initialize has just created, k after k logged entries.
C37_TotalFailuresIsEntriesLogged ==
    (reportStats.called /\ reportStats.read) =>
        reportStats.totalFailures = reportStats.logged

----------------------------------------------------------------------------
(* Claim about the scan counters, checked under SpecScan *)

\* C38: whenever the scan stands between two records, and in the
\* statistics it returns, totalScanned = validDocuments + invalidDocuments,
\* backedUp <= invalidDocuments, queued <= invalidDocuments and
\* invalidDocuments = queued + errors, whatever snapshot and enqueue
\* failures there were; while an invalid record is being handled it is
\* counted as invalid and not yet as queued or as an error.
C38_CountersConsistent ==
    LET inFlight == IF scan.pc \in {"backup", "enqueue"} THEN 1 ELSE 0
    IN  /\ scan.stats.totalScanned =
              scan.stats.validDocuments + scan.stats.invalidDocuments
        /\ scan.stats.backedUp <= scan.stats.invalidDocuments
        /\ scan.stats.queued <= scan.stats.invalidDocuments
        /\ scan.stats.invalidDocuments =
              scan.stats.queued + scan.stats.errors + inFlight

\* between two batches, after a batch of two valid records and a batch of
\* two invalid records with one snapshot failure and one enqueue failure
C38_Witness ==
    /\ scan.pc = "fetch"
    /\ scan.cursor # <<>>
    /\ scan.snapshotFailures = 1
    /\ scan.enqueueFailures = 1
    /\ scan.stats.validDocuments = 2
    /\ scan.stats.invalidDocuments = 2
    /\ scan.stats.backedUp = 1
    /\ scan.stats.queued = 1
    /\ scan.stats.errors = 1

----------------------------------------------------------------------------
(* Claim about the store writes of a worker attempt, checked under Spec *)

\* the records whose content differs between two store states
ChangedRecords(before, after) == {i \in DOMAIN before : before[i] # after[i]}

\* C39: a step of a worker attempt that changes the store is the replace of
\* that attempt returning the document: it changes exactly the record of
\* the job, once per attempt; an attempt whose replace has returned the
\* document can only end with the job completed; and the step that ends an
\* attempt in failure (the job goes back to waiting or to failed) comes
\* from the repair step, from an update that returned false or threw, or
\* from the escalation, and leaves the store as it is.
C39_FailedAttemptChangesNothing ==
    /\ [][(store' # store /\ upd' # upd) =>
            \E w \in Items :
               /\ upd[w].pc = "replace"
               /\ upd'[w].pc = "done"
               /\ upd'[w].outcome = "true"
               /\ upd[w].replaces < RetryBound(retryMaxAttempts)
               /\ queue[w].state = "active"
               /\ ChangedRecords(store, store') = {queue[w].data.documentId}]_vars
    /\ [](\A w \in Items :
            (upd[w].outcome = "true" \/ wk[w].pc = "save") => queue[w].state = "active")
    /\ [][\A w \in Items :
            ((upd[w].outcome = "true" \/ wk[w].pc = "save")
                  /\ queue'[w].state # queue[w].state)
               => queue'[w].state = "completed"]_vars
    /\ [][\A w \in Items :
            (queue[w].state = "active" /\ queue'[w].state \in {"waiting", "failed"})
               => /\ store' = store
                  /\ wk[w].pc \in {"ai", "update", "logRead", "logWrite"}
                  /\ wk[w].pc = "update" => upd[w].outcome \in {"false", "thrown"}]_vars

\* one job has failed for good after its replace found no record, and
\* another job's attempt has replaced its record and completed
C39_Witness ==
    /\ queue["w1"].state = "failed"
    /\ queue["w1"].failedReason = Err("update-false", 0)
    /\ queue["w2"].state = "completed"
    /\ store[queue["w2"].data.documentId] # queue["w2"].data.failedDocument
    /\ store[queue["w2"].data.documentId] # NoDoc

====
